---- MODULE Spec2Model ----
(***************************************************************************)
(* A model of the deferred-rendering demo: the flocking light entities     *)
(* (arctic/lightEntities.ts), the frame loop and startup (game.ts in its   *)
(* two variants), the render pass chain (pipeline.ts and the passes), the  *)
(* BRDF LUT cache (envMaps.ts) and the instanced geometry builder          *)
(* (common/instancedHelpers.ts).                                           *)
(*                                                                         *)
(* Reals are fixed-point integers, Unit lattice steps per 1.0.  Every      *)
(* division rounds toward zero and a length used as a divisor is rounded   *)
(* up, so a lattice result never exceeds the real result in magnitude.     *)
(***************************************************************************)
EXTENDS Integers, Sequences, FiniteSets, TLC

(***************************************************************************)
(* Bounds of the model.                                                    *)
(***************************************************************************)
\* lattice steps per 1.0 (resolution of the fixed-point reals)
Unit == 200
\* number of agents in the pool (BOID_COUNT is 400 in the source)
NumBoids == 2
\* update() calls explored in one behaviour
MaxTicks == 2
\* update() calls explored when phase 1 may visit the agents in any order
MaxPermTicks == 1
\* meshes in a scene
MaxMeshes == 2
\* frames rendered in one behaviour
MaxFrames == 3
\* gameState.update() calls of the interval timer in one behaviour
MaxTimerTicks == 3
\* passes the timeline holds disabled at one time
MaxDisabled == 3
\* side of the BRDF LUT in texels (BRDF_LUT_SIZE is 512 in the source)
LutSize == 1
\* generateBrdfLUT calls in one behaviour
MaxLutCalls == 2
\* instances handed to buildInstanced
MaxObjs == 2
\* attachToSequence() / load() calls in one behaviour
MaxAudioCalls == 2
\* frequency bins of the analyser (fftSize / 2, 1024 in the source)
BinCount == 8

\* update() calls of the camera-follow controller
MaxFollowFrames == 2

\* update() calls of the controller while follow is switched on and off
MaxSnapFrames == 3

\* update() calls publishing into the arrays of a built mesh
MaxPublishTicks == 2

\* flagged objects in the scene group
MaxSceneObjs == 3

\* world matrices an object can take, beyond the identity
MaxMatrixValue == 2

\* frames in which the object is drawn
MaxDrawn == 3

\* pixels of the render targets
NumPixels == 3

\* longest byte array put through the base64 codec
MaxBytes == 4

\* a chunk size small enough for the arrays to span several chunks
ScaledChunk == 2

\* rewriting passes of the L-system (13 in createLSystemPlant)
LSystemIterations == 2

(***************************************************************************)
(* Fixed-point vector arithmetic (THREE.Vector3).                          *)
(***************************************************************************)
Axes == 1..3

Zero3 == <<0, 0, 0>>

Abs(a) == IF a >= 0 THEN a ELSE -a

\* JavaScript division of reals, rounded toward zero on the lattice
TruncDiv(a, b) == IF a >= 0 THEN a \div b ELSE -((-a) \div b)

VAdd(a, b) == [c \in Axes |-> a[c] + b[c]]

VSub(a, b) == [c \in Axes |-> a[c] - b[c]]

\* v * (n / d)
VMulDiv(v, n, d) == [c \in Axes |-> TruncDiv(v[c] * n, d)]

LenSq(v) == v[1] * v[1] + v[2] * v[2] + v[3] * v[3]

RECURSIVE SqrtSearch(_, _, _)
SqrtSearch(n, lo, hi) ==
  IF lo >= hi THEN lo
  ELSE LET mid == (lo + hi + 1) \div 2
       IN IF mid * mid <= n THEN SqrtSearch(n, mid, hi)
          ELSE SqrtSearch(n, lo, mid - 1)

\* largest r with r*r <= n
FloorSqrt(n) == SqrtSearch(n, 0, 46340)

\* smallest r with r*r >= n
CeilSqrt(n) == LET r == FloorSqrt(n) IN IF r * r = n THEN r ELSE r + 1

\* v.normalize().multiplyScalar(s): normalize() divides by (length() || 1)
NormalizeTo(v, s) ==
  IF LenSq(v) = 0 THEN Zero3
  ELSE LET len == CeilSqrt(LenSq(v))
       IN [c \in Axes |-> TruncDiv(v[c] * s, len)]

\* v.clampLength(0, max)
ClampLength(v, max) ==
  IF LenSq(v) > max * max THEN NormalizeTo(v, max) ELSE v

\* a.distanceTo(b) < r, decided on squares; far components are cut off first
\* so that no square leaves the integer range
Within(a, b, r) ==
  /\ \A c \in Axes : Abs(a[c] - b[c]) < r
  /\ LenSq(VSub(a, b)) < r * r

RECURSIVE VSum(_, _)
VSum(S, f) ==
  IF S = {} THEN Zero3
  ELSE LET j == CHOOSE x \in S : TRUE
       IN VAdd(f[j], VSum(S \ {j}, f))

(***************************************************************************)
(* Flocking constants (arctic/lightEntities.ts, lines 10-21).              *)
(***************************************************************************)
Boids == 1..NumBoids

PERCEPTION_RADIUS == 40 * Unit

SEPARATION_RADIUS == 15 * Unit

MAX_SPEED == 3 * Unit

MAX_FORCE == (5 * Unit) \div 100

TARGET_HEIGHT == 5 * Unit

\* amplitude of the jitter, (Math.random() - 0.5) * 0.01
JITTER == Unit \div 200

(***************************************************************************)
(* State.                                                                  *)
(***************************************************************************)
VARIABLES
  position,       \* dynamicLightDatas[i].position
  velocity,       \* dynamicLightDatas[i].userData.velocity
  accelerations,  \* accelerations[i]
  center,         \* entity.center
  rng,            \* state of the Math.random stream
  fpc,            \* where update() is: "idle", "phase1", "phase2"
  fk,             \* loop counter of the running phase
  deltaTime,      \* argument of the running update()
  order,          \* order in which phase 1 visits the agents
  ticks,          \* completed update() calls
  pre,            \* positions and velocities when update() was entered
  rng0,           \* stream state when update() was entered
  clamped,        \* the speed clamp has acted in some tick
  lightsVisible,  \* instancedLights.visible
  objectsVisible, \* instancedObjects.visible
  objectsBuffer,  \* per instance, the translation held in its 16 floats of
                  \* the instanceMatrix array of instancedObjects
  lightsBuffer,   \* per instance, the matrix held in its 16 floats of the
                  \* instanceMatrix array of instancedLights
  heading         \* objects[i].quaternion, as the direction it turns FORWARD to

flockVars == <<position, velocity, accelerations, center, rng, fpc, fk,
               deltaTime, order, ticks, pre, rng0, clamped,
               lightsVisible, objectsVisible, objectsBuffer, lightsBuffer,
               heading>>

VARIABLES
  passEnabled,    \* pass.enabled of every pass of the chain
  sheetEnabled,   \* the "enabled" value the timeline last delivered for it
  pidx,           \* composer.render(): 0 between frames, else the loop index
  readBuffer,     \* composer.readBuffer
  writeBuffer,    \* composer.writeBuffer
  ran,            \* the passes that have executed in this frame
  readOf,         \* the `read` each executed pass was handed in this frame
  writeOf,        \* the `write` each executed pass was handed in this frame
  targetOf,       \* the render target each executed pass rendered to
  frameNo,        \* frames begun so far, counted up to "second or later"
  saveStored,     \* the frame whose colour savePass.buffer holds
  ssrSampled,     \* what SSRPass found in savePass.buffer in this frame
  saveRanPrev     \* whether SavePass executed in the frame before

pipeVars == <<passEnabled, sheetEnabled, pidx, readBuffer, writeBuffer, ran,
              readOf, writeOf, targetOf, frameNo, saveStored, ssrSampled,
              saveRanPrev>>

VARIABLES
  variant,        \* which start(): "frame" (update in animate) or "timer"
  sceneMaterials, \* material type of every mesh of the scene, traversal order
  lutStorageThrows, \* localStorage.getItem throws while the pipeline is set up
  spc,            \* where start() is
  startError,     \* the error start() rejected with, or "none"
  configured,     \* meshes configureSceneObjects has completed
  loopInstalled,  \* renderer.setAnimationLoop(animate) has been called
  timerInstalled, \* setInterval(() => gameState.update(1 / 20)) has been called
  audio,          \* the attachToSequence / load promise
  audioLogged,    \* the .catch handler has logged the rejection
  apc,            \* where animate() is: "idle", "animate", "updated", "render"
  frames,         \* pipeline.render() calls completed
  simTicks,       \* gameState.update() calls completed
  updatesInFrame, \* gameState.update() calls since this frame started
  ticksSinceRender, \* gameState.update() calls since pipeline.render() started
  bufferTick,     \* the tick whose transforms the instance buffers hold
  renderedTick    \* the tick whose transforms the last render read

startVars == <<variant, sceneMaterials, lutStorageThrows, spc, startError,
               configured, loopInstalled, timerInstalled, audio, audioLogged,
               apc, frames, simTicks, updatesInFrame, ticksSinceRender,
               bufferTick, renderedTick>>

VARIABLES
  storageUsable,  \* window.localStorage can be read (canUseLocalStorage)
  getThrows,      \* localStorage.getItem throws
  setThrows,      \* localStorage.setItem throws (quota, private mode)
  store,          \* localStorage: key -> value, NoItem when absent
  gpuPixels,      \* what readRenderTargetPixels returns for the LUT
  lutResult,      \* outcome of the last generateBrdfLUT call
  lutCalls,       \* generateBrdfLUT calls made
  lutRenders,     \* LUT renderings made
  storeBefore     \* the store when the last call was entered

lutVars == <<storageUsable, getThrows, setThrows, store, gpuPixels, lutResult,
             lutCalls, lutRenders, storeBefore>>

VARIABLES
  objs,           \* the SceneObject list handed to buildInstanced
  bpc,            \* "ready", "returned" or "threw"
  buildError,     \* the error buildInstanced threw, or "none"
  matrixArray,    \* the instanceMatrix array and who wrote each cell
  attributeArrays, \* per schema attribute, the array and who wrote each cell
  lightArrays,    \* the four arrays of buildInstancedLights, likewise
  published       \* update() calls that have published transforms

buildVars == <<objs, bpc, buildError, matrixArray, attributeArrays,
               lightArrays, published>>

VARIABLES
  amVariant,      \* which AudioManager: "sequence" (audio.ts) or "element"
  amCtx,          \* this.ctx is not null
  amAnalyser,     \* this.analyser: the graph it belongs to, 0 when null
  amGain,         \* this.gainNode: the graph it belongs to, 0 when null
  amSource,       \* this.sequence / this.element: its graph, 0 when null
  amLoaded,       \* this.loaded
  connected,      \* graphs whose analyser is connected to ctx.destination
  awaiting,       \* attachToSequence / load calls suspended at their await
  amCalls,        \* attachToSequence / load calls made
  amFailed,       \* calls that rejected
  playing,        \* the sequence is playing / the element is not paused
  lastOp,         \* the last AudioManager operation
  playingBefore,  \* `playing` when the last operation was called
  energy,         \* what getEnergy() returned to the last onBeforeRender
  loudness,       \* uniforms.loudness.value of the instanced material
  trackAtRender   \* whether a track was attached at the last onBeforeRender

audioVars == <<amVariant, amCtx, amAnalyser, amGain, amSource, amLoaded,
               connected, awaiting, amCalls, amFailed, playing, lastOp,
               playingBefore, energy, loudness, trackAtRender>>

VARIABLES
  camEnabled,     \* state.enabled of the camera-follow controller
  camFollowIndex, \* state.followIndex, in steps of 1/Unit
  camOffset,      \* state.offset
  camSmoothing,   \* state.smoothing
  camValue,       \* the followIndex value the timeline delivered last
  camInitialized, \* _initialized
  camPosition,    \* camera.position
  camLookAt,      \* _currentLookAt
  camCalled,      \* whether update() has called the accessors
  camArg,         \* the index update() passed to the accessors last
  camRaised,      \* whether an accessor call of update() threw
  camFrames,      \* update() calls made
  camSeenEnabled, \* state.enabled as the last update() call found it
  camWasDisabled, \* whether follow has been disabled since that call
  camSnaps        \* update() calls that placed the camera on the target

followVars == <<camEnabled, camFollowIndex, camOffset, camSmoothing, camValue,
                camInitialized, camPosition, camLookAt, camCalled, camArg,
                camRaised, camFrames, camSeenEnabled, camWasDisabled,
                camSnaps>>

VARIABLES
  sceneObjs,      \* the flagged objects grid.generate finds in the group
  gpc,            \* where grid.generate is
  builderCalls    \* the buildInstanced calls made: call site and list length

genVars == <<sceneObjs, gpc, builderCalls>>

VARIABLES
  matrix4,        \* the Matrix4 objects of one scene object, by identity:
                  \* object.matrixWorld and the material's uniform value
  prevRef,        \* the Matrix4 userData.previousWorldMatrix refers to
  isDynamic,      \* object.userData.isDynamic
  worldAtDraw,    \* per frame drawn, object.matrixWorld when it was drawn
  uniformAtDraw   \* per frame drawn, the previousWorldMatrix uniform handed

prevVars == <<matrix4, prevRef, isDynamic, worldAtDraw, uniformAtDraw>>

VARIABLES
  stencil,        \* per depth-stencil texture, the stencil value of each pixel
  lightPixels,    \* per pixel of the light buffer, what has been added to it
  rasterised,     \* per pixel, how the G-buffer pass touched it in this frame
  iblDone,        \* the pixels the IBL quad has covered in this frame
  sphase          \* the pass of the frame that is drawing

stencilVars == <<stencil, lightPixels, rasterised, iblDone, sphase>>

VARIABLES
  codecBytes,     \* the Uint8Array handed to encodeBytesToBase64
  codecChunk,     \* the chunk size its loop runs with
  codecText,      \* the base64 string it returned
  codecOut,       \* what decodeBase64ToBytes made of that string
  codecStep       \* "bytes", "encoded" or "decoded"

codecVars == <<codecBytes, codecChunk, codecText, codecOut, codecStep>>

VARIABLES
  plantInstructions, \* `instructions`: the string createLSystemPlant interprets
  tip,            \* the index of the character the loop is at
  turtle,         \* currentPosition, currentRotation, currentThickness,
                  \* currentLen, currentAngle, currentKey
  stack,          \* the stack of saved states, each with the index of its "["
  atBracket,      \* per "[" passed, the turtle state when it was reached
  lastPop         \* what the last "]" popped: the index of its "[", or 0

turtleVars == <<plantInstructions, tip, turtle, stack, atBracket, lastPop>>

vars == <<flockVars, pipeVars, startVars, lutVars, buildVars, audioVars,
          followVars, genVars,
          prevVars,
          stencilVars,
          codecVars,
          turtleVars>>

\* the variables an action of one component leaves alone
FlockOnly == UNCHANGED <<pipeVars, startVars, lutVars, buildVars, audioVars, followVars, genVars,
              prevVars,
              stencilVars,
              codecVars,
              turtleVars>>

PipeOnly == UNCHANGED <<flockVars, startVars, lutVars, buildVars, audioVars, followVars, genVars,
              prevVars,
              stencilVars,
              codecVars,
              turtleVars>>

StartOnly == UNCHANGED <<flockVars, pipeVars, lutVars, buildVars, audioVars, followVars, genVars,
              prevVars,
              stencilVars,
              codecVars,
              turtleVars>>

LutOnly == UNCHANGED <<flockVars, pipeVars, startVars, buildVars, audioVars, followVars, genVars,
              prevVars,
              stencilVars,
              codecVars,
              turtleVars>>

BuildOnly == UNCHANGED <<flockVars, pipeVars, startVars, lutVars, audioVars, followVars, genVars,
              prevVars,
              stencilVars,
              codecVars,
              turtleVars>>

AudioOnly ==
  UNCHANGED <<flockVars, pipeVars, startVars, lutVars, buildVars, followVars,
              genVars,
              prevVars,
              stencilVars,
              codecVars,
              turtleVars>>

FollowOnly ==
  UNCHANGED <<flockVars, pipeVars, startVars, lutVars, buildVars, audioVars,
              genVars,
              prevVars,
              stencilVars,
              codecVars,
              turtleVars>>

GenOnly ==
  UNCHANGED <<flockVars, pipeVars, startVars, lutVars, buildVars, audioVars,
              followVars,
              prevVars,
              stencilVars,
              codecVars,
              turtleVars>>

PrevOnly ==
  UNCHANGED <<flockVars, pipeVars, startVars, lutVars, buildVars, audioVars, followVars, genVars,
              stencilVars,
              codecVars,
              turtleVars>>

StencilOnly ==
  UNCHANGED <<flockVars, pipeVars, startVars, lutVars, buildVars, audioVars, followVars, genVars, prevVars,
              codecVars,
              turtleVars>>

CodecOnly ==
  UNCHANGED <<flockVars, pipeVars, startVars, lutVars, buildVars, audioVars, followVars, genVars, prevVars, stencilVars,
              turtleVars>>

TurtleOnly ==
  UNCHANGED <<flockVars, pipeVars, startVars, lutVars, buildVars, audioVars, followVars, genVars, prevVars, stencilVars, codecVars>>

(***************************************************************************)
(* Math.random: a seeded stream (index.tsx, Math.random = random).  One    *)
(* call returns a value of [0,1) and advances the state.                   *)
(***************************************************************************)
RngNext(s) == (s * 5 + 3) % 32

\* the value drawn in state s, as one of three equal buckets of [0,1)
RngBucket(s) == (s \div 4) % 3

\* (Math.random() - 0.5) * 0.01 for the bucket's midpoint, to the nearest step
JitterOf(s) == (RngBucket(s) - 1) * JITTER

\* acc.x, acc.y, acc.z jitter: three consecutive draws starting in state s
Jitter3(s) ==
  <<JitterOf(s), JitterOf(RngNext(s)), JitterOf(RngNext(RngNext(s)))>>

RngAfter3(s) == RngNext(RngNext(RngNext(s)))

(***************************************************************************)
(* update(), phase 1: the steering of one agent (lightEntities.ts,         *)
(* lines 107-186), as a function of the positions P, the velocities V and  *)
(* the center it reads.                                                    *)
(***************************************************************************)
\* the agents j with dist < PERCEPTION_RADIUS (line 123)
Perceived(P, i) ==
  {j \in Boids \ {i} : Within(P[i], P[j], PERCEPTION_RADIUS)}

\* those that also have dist < SEPARATION_RADIUS && dist > 0.001 (line 133)
Separated(P, i) ==
  {j \in Perceived(P, i) :
     /\ Within(P[i], P[j], SEPARATION_RADIUS)
     /\ LenSq(VSub(P[i], P[j])) > (Unit * Unit) \div 1000000}

\* _diff.subVectors(pos, other.position).divideScalar(dist * dist)
Repulsion(P, i, j) ==
  VMulDiv(VSub(P[i], P[j]), Unit * Unit, LenSq(VSub(P[i], P[j])))

\* the steering step shared by the three grouped forces:
\* normalize().multiplyScalar(MAX_SPEED), sub(vel), clampLength(0, MAX_FORCE)
SteerTowards(dir, vel) ==
  ClampLength(VSub(NormalizeTo(dir, MAX_SPEED), vel), MAX_FORCE)

\* lines 147-151, times ALIGNMENT_WEIGHT (1.0)
AlignmentForce(P, V, i) ==
  LET S == Perceived(P, i)
      n == Cardinality(S)
  IN IF n > 0
     THEN SteerTowards(VMulDiv(VSum(S, V), 1, n), V[i])
     ELSE Zero3

\* lines 154-159, times COHESION_WEIGHT (1.0)
CohesionForce(P, V, i) ==
  LET S == Perceived(P, i)
      n == Cardinality(S)
  IN IF n > 0
     THEN SteerTowards(VSub(VMulDiv(VSum(S, P), 1, n), P[i]), V[i])
     ELSE Zero3

\* the separation steering aimed at the close neighbours instead of away
SeparationForceAttract(P, V, i) ==
  LET S == Separated(P, i)
      n == Cardinality(S)
      rep == [j \in Boids |-> IF j \in S THEN Repulsion(P, i, j) ELSE Zero3]
  IN IF n > 0
     THEN VMulDiv(SteerTowards(VMulDiv(VSum(S, rep), -1, n), V[i]), 5, 2)
     ELSE Zero3

\* lines 162-168, times SEPARATION_WEIGHT (2.5)
SeparationForce(P, V, i) ==
  LET S == Separated(P, i)
      n == Cardinality(S)
      rep == [j \in Boids |-> IF j \in S THEN Repulsion(P, i, j) ELSE Zero3]
  IN IF n > 0
     THEN VMulDiv(SteerTowards(VMulDiv(VSum(S, rep), 1, n), V[i]), 5, 2)
     ELSE Zero3

\* the pull towards the center the entity was constructed with
CenterPullConstructed(P, ctr, i) ==
  VMulDiv(VSub(<<200 * Unit, 5 * Unit, 200 * Unit>>, P[i]), 5, 10000)

\* lines 171-172: (center - pos) * CENTER_WEIGHT (0.0005)
CenterPull(P, ctr, i) == VMulDiv(VSub(ctr, P[i]), 5, 10000)

\* lines 175-180, times HEIGHT_WEIGHT (0.5)
HeightForce(P, V, i) ==
  VMulDiv(SteerTowards(<<0, TARGET_HEIGHT - P[i][2], 0>>, V[i]), 1, 2)

\* the acceleration of agent i before the jitter is added
Steering(P, V, ctr, i) ==
  VAdd(VAdd(VAdd(AlignmentForce(P, V, i), CohesionForce(P, V, i)),
            VAdd(SeparationForce(P, V, i), CenterPull(P, ctr, i))),
       HeightForce(P, V, i))

\* accelerations[i] as phase 1 leaves it, the stream being in state s
Acceleration(P, V, ctr, i, s) == VAdd(Steering(P, V, ctr, i), Jitter3(s))

(***************************************************************************)
(* update(), phase 2: integration of one agent (lines 190-203).            *)
(***************************************************************************)
\* entity.FORWARD
FORWARD == <<0, Unit, 0>>

\* a 4x4 matrix: the three basis columns, the bottom row and the translation
\* (elements 12, 13, 14)
ScaleMatrix(sc, p) ==
  [basis |-> <<<<sc, 0, 0>>, <<0, sc, 0>>, <<0, 0, sc>>>>,
   bottom |-> <<0, 0, 0, Unit>>,
   pos |-> p]

\* light.matrixWorld at construction: light.scale.setScalar(4 * intensity)
\* with intensity 20, no rotation
LightMatrix(p) == ScaleMatrix(80 * Unit, p)

\* the light's 16 floats overwritten with a matrix composed like the object's
PublishLightComposed(m, p) == ScaleMatrix(10 * Unit, p)

\* lines 219-221: MATRIX.fromArray(lightsBuffer, i * 16),
\* MATRIX.setPosition(light.position), MATRIX.toArray(lightsBuffer, i * 16)
PublishLight(m, p) == [m EXCEPT !.pos = p]

\* lines 208-214: if (speed > 0.01) quaternion.setFromUnitVectors(FORWARD,
\* vel / speed); the quaternion is left as it was otherwise
Rotated(h, vel) ==
  IF LenSq(vel) > (Unit * Unit) \div 10000
  THEN NormalizeTo(vel, Unit)
  ELSE h

\* the clamp missing: a velocity is left as the acceleration made it
ClampSpeedNoClamp(v) == v

\* if (vel.length() > MAX_SPEED) vel.normalize().multiplyScalar(MAX_SPEED)
ClampSpeed(v) ==
  IF LenSq(v) > MAX_SPEED * MAX_SPEED THEN NormalizeTo(v, MAX_SPEED) ELSE v

\* vel.addScaledVector(accelerations[i], deltaTime), before the clamp
Accelerated(v, a, dt) == VAdd(v, VMulDiv(a, dt, Unit))

IntegrateVelocity(v, a, dt) == ClampSpeed(Accelerated(v, a, dt))

\* light.position.addScaledVector(vel, deltaTime)
IntegratePosition(p, v, dt) == VAdd(p, VMulDiv(v, dt, Unit))

(***************************************************************************)
(* Inputs of the flocking model.                                           *)
(***************************************************************************)
\* light.position.set(random*200+200, random*10+1, random*200+200)
InitPositions ==
  { <<200 * Unit, 5 * Unit, 200 * Unit>>,
    <<210 * Unit, 5 * Unit, 200 * Unit>>,
    <<245 * Unit, 3 * Unit, 200 * Unit>> }

\* new THREE.Vector3(random - 0.5, random - 0.5, random - 0.5)
InitVelocities ==
  { Zero3, <<Unit \div 4, 0, -(Unit \div 2)>> }

Seeds == {0, 11}

\* clock.getDelta() * 10: a 60 Hz frame, and a frame after the page was in
\* the background for two seconds
DeltaTimes == {Unit \div 6, 20 * Unit}

\* centerX, centerY, centerZ of the "Light Entities" sheet object
Centers == { <<200 * Unit, 5 * Unit, 200 * Unit>>,
             <<100 * Unit, 50 * Unit, 300 * Unit>> }

Identity == [k \in Boids |-> k]

VisitOrders ==
  {f \in [Boids -> Boids] : \A a, b \in Boids : a # b => f[a] # f[b]}

(***************************************************************************)
(* Flocking: initial state and actions.                                    *)
(***************************************************************************)
FlockInit ==
  /\ position \in [Boids -> InitPositions]
  /\ velocity \in [Boids -> InitVelocities]
  /\ accelerations = [i \in Boids |-> Zero3]
  /\ center = <<200 * Unit, 5 * Unit, 200 * Unit>>
  /\ rng \in Seeds
  /\ fpc = "idle"
  /\ fk = 1
  /\ deltaTime = 0
  /\ order = Identity
  /\ ticks = 0
  /\ pre = [pos |-> position, vel |-> velocity]
  /\ rng0 = rng
  /\ clamped = FALSE
  /\ lightsVisible = TRUE
  /\ objectsVisible = TRUE
  /\ objectsBuffer = position
  /\ lightsBuffer = [i \in Boids |-> LightMatrix(position[i])]
  /\ heading = [i \in Boids |-> FORWARD]

\* the "Light Entities" onValuesChange callback (lines 231-235)
LightEntitiesValuesChange(ctr, enabled) ==
  /\ FlockOnly
  /\ fpc = "idle"
  /\ center' = ctr
  /\ lightsVisible' = enabled
  /\ objectsVisible' = enabled
  /\ UNCHANGED <<position, velocity, accelerations, rng, fpc, fk, deltaTime,
                 order, ticks, pre, rng0, clamped, objectsBuffer, lightsBuffer,
                 heading>>

\* update(deltaTime) is entered; phase 1 will visit the agents in order ord
UpdateBegin(dt, ord, maxTicks) ==
  /\ FlockOnly
  /\ fpc = "idle"
  /\ ticks < maxTicks
  /\ fpc' = "phase1"
  /\ fk' = 1
  /\ deltaTime' = dt
  /\ order' = ord
  /\ pre' = [pos |-> position, vel |-> velocity]
  /\ rng0' = rng
  /\ UNCHANGED <<position, velocity, accelerations, center, rng, ticks,
                 clamped, lightsVisible, objectsVisible, objectsBuffer,
                 lightsBuffer, heading>>

\* the position of agent i in the visiting order ord
VisitPos(ord, i) == CHOOSE k \in Boids : ord[k] = i

\* the stream state from which the k-th visited agent draws its jitter
RECURSIVE StreamAt(_, _)
StreamAt(s, k) == IF k <= 1 THEN s ELSE StreamAt(RngAfter3(s), k - 1)

\* the two loops fused: agent i is integrated as soon as its acceleration is
\* known, so the agents visited after it read its new position and velocity
Phase1StepFused ==
  /\ FlockOnly
  /\ fpc = "phase1"
  /\ LET i   == order[fk]
         acc == Acceleration(position, velocity, center, i, rng)
         vel == IntegrateVelocity(velocity[i], acc, deltaTime)
     IN /\ accelerations' = [accelerations EXCEPT ![i] = acc]
        /\ velocity' = [velocity EXCEPT ![i] = vel]
        /\ position' =
             [position EXCEPT ![i] = IntegratePosition(position[i], vel, deltaTime)]
        /\ heading' = [heading EXCEPT ![i] = Rotated(heading[i], vel)]
        /\ objectsBuffer' = [objectsBuffer EXCEPT ![i] = position'[i]]
        /\ lightsBuffer' =
             [lightsBuffer EXCEPT ![i] = PublishLight(lightsBuffer[i], position'[i])]
  /\ rng' = RngAfter3(rng)
  /\ IF fk < NumBoids
     THEN /\ fk' = fk + 1
          /\ fpc' = fpc
     ELSE /\ fk' = 1
          /\ fpc' = "phase2"
  /\ UNCHANGED <<center, deltaTime, order, ticks, pre, rng0, clamped,
                 lightsVisible, objectsVisible>>

\* one iteration of the phase 1 loop (lines 106-186)
Phase1Step ==
  /\ FlockOnly
  /\ fpc = "phase1"
  /\ LET i == order[fk]
     IN accelerations' =
          [accelerations EXCEPT
             ![i] = Acceleration(position, velocity, center, i, rng)]
  /\ rng' = RngAfter3(rng)
  /\ IF fk < NumBoids
     THEN /\ fk' = fk + 1
          /\ fpc' = fpc
     ELSE /\ fk' = 1
          /\ fpc' = "phase2"
  /\ UNCHANGED <<position, velocity, center, deltaTime, order, ticks, pre,
                 rng0, clamped, lightsVisible, objectsVisible, objectsBuffer,
                 lightsBuffer, heading>>

\* phase 2 steering each agent anew from the positions and velocities it
\* finds, instead of reading accelerations[i]
Phase2StepRecompute ==
  /\ FlockOnly
  /\ fpc = "phase2"
  /\ LET i   == fk
         acc == Acceleration(position, velocity, center, i,
                             StreamAt(rng0, VisitPos(order, i)))
         vel == IntegrateVelocity(velocity[i], acc, deltaTime)
     IN /\ velocity' = [velocity EXCEPT ![i] = vel]
        /\ position' =
             [position EXCEPT ![i] = IntegratePosition(position[i], vel, deltaTime)]
        /\ heading' = [heading EXCEPT ![i] = Rotated(heading[i], vel)]
        /\ objectsBuffer' = [objectsBuffer EXCEPT ![i] = position'[i]]
        /\ lightsBuffer' =
             [lightsBuffer EXCEPT ![i] = PublishLight(lightsBuffer[i], position'[i])]
        /\ clamped' = clamped
  /\ IF fk < NumBoids
     THEN /\ fk' = fk + 1
          /\ fpc' = fpc
          /\ ticks' = ticks
     ELSE /\ fk' = 1
          /\ fpc' = "idle"
          /\ ticks' = ticks + 1
  /\ UNCHANGED <<accelerations, center, rng, deltaTime, order, pre, rng0,
                 lightsVisible, objectsVisible>>

\* one iteration of the phase 2 loop (lines 189-222)
Phase2Step ==
  /\ FlockOnly
  /\ fpc = "phase2"
  /\ LET i   == fk
         raw == Accelerated(velocity[i], accelerations[i], deltaTime)
         vel == IntegrateVelocity(velocity[i], accelerations[i], deltaTime)
     IN /\ velocity' = [velocity EXCEPT ![i] = vel]
        /\ position' =
             [position EXCEPT ![i] = IntegratePosition(position[i], vel, deltaTime)]
        \* lines 216-221: MATRIX.toArray(objectsBuffer, i * 16) after
        \* compose(object.position, ...), MATRIX.toArray(lightsBuffer, i * 16)
        \* after setPosition(light.position)
        /\ heading' = [heading EXCEPT ![i] = Rotated(heading[i], vel)]
        /\ objectsBuffer' = [objectsBuffer EXCEPT ![i] = position'[i]]
        /\ lightsBuffer' =
             [lightsBuffer EXCEPT ![i] = PublishLight(lightsBuffer[i], position'[i])]
        /\ clamped' = (clamped \/ LenSq(raw) > MAX_SPEED * MAX_SPEED)
  /\ IF fk < NumBoids
     THEN /\ fk' = fk + 1
          /\ fpc' = fpc
          /\ ticks' = ticks
     ELSE /\ fk' = 1
          /\ fpc' = "idle"
          /\ ticks' = ticks + 1
  /\ UNCHANGED <<accelerations, center, rng, deltaTime, order, pre, rng0,
                 lightsVisible, objectsVisible>>


(***************************************************************************)
(* The render pass chain: setupPipeline (pipeline.ts) builds the passes in *)
(* a fixed order and connects each to the timeline; composer.render() is   *)
(* three.js' EffectComposer.render().                                      *)
(***************************************************************************)
\* the chain with the text overlay composited before it is drawn
PassesCompositeFirst ==
  << "GBufferPass", "SSAOPass", "LightPass", "IBLPass", "IBL Diffuse output",
     "SkyPass", "SSRPass", "SavePass", "BokehPass", "UiCompositePass",
     "UiPass", "BloomPass", "GlitchPass", "ToneMappingPass" >>

\* the chain with the colour saved before the reflections are traced
PassesSaveFirst ==
  << "GBufferPass", "SSAOPass", "LightPass", "IBLPass", "IBL Diffuse output",
     "SkyPass", "SavePass", "SSRPass", "BokehPass", "UiPass",
     "UiCompositePass", "BloomPass", "GlitchPass", "ToneMappingPass" >>

\* the passes in the order of the addPass calls (lines 49-102)
Passes ==
  << "GBufferPass", "SSAOPass", "LightPass", "IBLPass", "IBL Diffuse output",
     "SkyPass", "SSRPass", "SavePass", "BokehPass", "UiPass",
     "UiCompositePass", "BloomPass", "GlitchPass", "ToneMappingPass" >>

PassIds == 1..Len(Passes)

FrameDone == Len(Passes) + 1

PingPong == {"rt1", "rt2"}

\* connectPassToTheatre's callback, typeof value === 'boolean': pass[key] = value
PassValueIgnored(old, value) == old

PassValueApplied(old, value) == value

\* EffectComposer.isLastEnabledPass(i)
IsLastEnabledPass(i) == \A j \in PassIds : j > i => ~passEnabled[j]

\* the render target a pass renders to, handed `write` and its renderToScreen
PassTarget(name, write, renderToScreen) ==
  CASE name = "GBufferPass" -> "gBuffer"
    [] name = "SSAOPass" -> "ssaoBuffer"
    [] name = "LightPass" -> "lightBuffer"
    [] name = "IBLPass" -> "lightBuffer"
    [] name = "SavePass" -> "saveBuffer"
    [] name = "UiPass" -> "textBuffer"
    [] name = "ToneMappingPass" -> IF renderToScreen THEN "screen" ELSE write
    [] OTHER -> write

\* the named buffers a pass samples, as handed to its constructor
PassReads(name) ==
  CASE name = "SSAOPass" -> {"gBuffer"}
    [] name = "LightPass" -> {"gBuffer"}
    [] name = "IBLPass" -> {"gBuffer", "ssaoBuffer"}
    [] name = "IBL Diffuse output" -> {"lightBuffer"}
    [] name = "SkyPass" -> {"gBuffer"}
    [] name = "SSRPass" -> {"gBuffer", "saveBuffer", "lightBuffer"}
    [] name = "BokehPass" -> {"gBuffer"}
    [] name = "UiCompositePass" -> {"textBuffer"}
    [] OTHER -> {}

\* the buffers that are produced and consumed within one frame
FrameBuffers == {"gBuffer", "ssaoBuffer", "lightBuffer", "textBuffer"}

PipeInit ==
  /\ passEnabled = [i \in PassIds |-> TRUE]
  /\ sheetEnabled = [i \in PassIds |-> TRUE]
  /\ pidx = 0
  /\ readBuffer = "rt2"
  /\ writeBuffer = "rt1"
  /\ ran = {}
  /\ readOf = [i \in PassIds |-> "none"]
  /\ writeOf = [i \in PassIds |-> "none"]
  /\ targetOf = [i \in PassIds |-> "none"]
  /\ frameNo = 0
  /\ saveStored = "never"
  /\ ssrSampled = "notRun"
  /\ saveRanPrev = FALSE

\* the timeline delivers a value of "enabled" for pass i (theatreThree.ts,
\* lines 28-41); callbacks run between frames
PassValuesChange(i, value) ==
  /\ PipeOnly
  /\ pidx = 0
  /\ value \/ Cardinality({j \in PassIds : ~sheetEnabled[j]} \cup {i}) <= MaxDisabled
  /\ sheetEnabled' = [sheetEnabled EXCEPT ![i] = value]
  /\ passEnabled' =
       [passEnabled EXCEPT ![i] = PassValueApplied(passEnabled[i], value)]
  /\ UNCHANGED <<pidx, readBuffer, writeBuffer, ran, readOf, writeOf, targetOf,
                 frameNo, saveStored, ssrSampled, saveRanPrev>>

\* pipeline.render() is entered
RenderBegin ==
  /\ PipeOnly
  /\ pidx = 0
  /\ pidx' = 1
  /\ frameNo' = IF frameNo < 2 THEN frameNo + 1 ELSE frameNo
  /\ UNCHANGED <<passEnabled, sheetEnabled, readBuffer, writeBuffer, ran,
                 readOf, writeOf, targetOf, saveStored, ssrSampled,
                 saveRanPrev>>

\* whether the loop swaps read and write at a pass: only after it has rendered
SwapAt(enabled) == enabled

\* one iteration of the composer's loop over the passes
ComposerStep ==
  /\ PipeOnly
  /\ pidx \in PassIds
  /\ IF passEnabled[pidx]
     THEN /\ ran' = ran \cup {pidx}
          /\ readOf' = [readOf EXCEPT ![pidx] = readBuffer]
          /\ writeOf' = [writeOf EXCEPT ![pidx] = writeBuffer]
          /\ targetOf' =
               [targetOf EXCEPT
                  ![pidx] = PassTarget(Passes[pidx], writeBuffer,
                                       IsLastEnabledPass(pidx))]
     ELSE UNCHANGED <<ran, readOf, writeOf, targetOf>>
  /\ IF SwapAt(passEnabled[pidx])
     THEN /\ readBuffer' = writeBuffer
          /\ writeBuffer' = readBuffer
     ELSE UNCHANGED <<readBuffer, writeBuffer>>
  /\ ssrSampled' = IF passEnabled[pidx] /\ Passes[pidx] = "SSRPass"
                   THEN saveStored ELSE ssrSampled
  /\ saveStored' = IF passEnabled[pidx] /\ Passes[pidx] = "SavePass"
                   THEN "thisFrame" ELSE saveStored
  /\ pidx' = pidx + 1
  /\ UNCHANGED <<passEnabled, sheetEnabled, frameNo, saveRanPrev>>

\* what a buffer stored in some frame holds once that frame has ended
Aged(stored) ==
  CASE stored = "thisFrame" -> "previousFrame"
    [] stored = "previousFrame" -> "older"
    [] OTHER -> stored

\* pipeline.render() returns; the record of the frame is dropped
RenderEnd ==
  /\ PipeOnly
  /\ pidx = FrameDone
  /\ pidx' = 0
  /\ ran' = {}
  /\ readOf' = [i \in PassIds |-> "none"]
  /\ writeOf' = [i \in PassIds |-> "none"]
  /\ targetOf' = [i \in PassIds |-> "none"]
  /\ saveStored' = Aged(saveStored)
  /\ ssrSampled' = "notRun"
  /\ saveRanPrev' = \E i \in ran : Passes[i] = "SavePass"
  /\ UNCHANGED <<passEnabled, sheetEnabled, readBuffer, writeBuffer, frameNo>>

(***************************************************************************)
(* Startup and the frame loop: start() and animate() of game.ts.  The      *)
(* repository holds two variants: one calls gameState.update() inside      *)
(* animate(), the other from setInterval().                                *)
(***************************************************************************)
MaterialTypes ==
  {"MeshPhysicalMaterial", "ShaderMaterial", "MeshBasicMaterial",
   "LineBasicMaterial"}

Scenes ==
  UNION {[1..n -> MaterialTypes] : n \in 1..MaxMeshes}

\* an error: its message and, for a material error, the material type
NoStartError == [message |-> "none", type |-> "none"]

\* configureSceneObjects with the final else branch missing: any material is
\* taken as the shader
ConfigureAnyMaterial(type) == [ok |-> TRUE, error |-> NoStartError]

\* configureSceneObjects on one mesh (scene.ts, lines 49-67)
ConfigureSceneObject(type) ==
  IF type = "MeshPhysicalMaterial" \/ type = "ShaderMaterial"
  THEN [ok |-> TRUE, error |-> NoStartError]
  ELSE [ok |-> FALSE,
        error |-> [message |-> "Unsupported material type", type |-> type]]

\* the meshes scene.traverse reaches before one throws
RECURSIVE ConfiguredPrefix(_, _)
ConfiguredPrefix(scene, k) ==
  IF k > Len(scene) THEN Len(scene)
  ELSE IF ConfigureSceneObject(scene[k]).ok
       THEN ConfiguredPrefix(scene, k + 1)
       ELSE k - 1

\* the .catch handler of the audio promise swallowing nothing
AudioRejectionUncaught(err) == [logged |-> FALSE, error |-> err]

\* .catch(err => console.error('Failed to attach audio:', err))
AudioRejectionCaught(err) == [logged |-> TRUE, error |-> NoStartError]

StartInit ==
  /\ variant \in {"frame", "timer"}
  /\ sceneMaterials \in Scenes
  /\ lutStorageThrows \in BOOLEAN
  /\ spc = "start"
  /\ startError = NoStartError
  /\ configured = 0
  /\ loopInstalled = FALSE
  /\ timerInstalled = FALSE
  /\ audio = "unstarted"
  /\ audioLogged = FALSE
  /\ apc = "idle"
  /\ frames = 0
  /\ simTicks = 0
  /\ updatesInFrame = 0
  /\ ticksSinceRender = 0
  /\ bufferTick = 0
  /\ renderedTick = 0

\* start() up to its await: setupScene(gameState) and what precedes it
SetupScene ==
  /\ StartOnly
  /\ spc = "start"
  /\ LET n == ConfiguredPrefix(sceneMaterials, 1)
     IN /\ configured' = n
        /\ IF n = Len(sceneMaterials)
           THEN /\ spc' = "awaitPipeline"
                /\ startError' = startError
           ELSE /\ spc' = "rejected"
                /\ startError' = ConfigureSceneObject(sceneMaterials[n + 1]).error
  /\ UNCHANGED <<variant, sceneMaterials, lutStorageThrows, loopInstalled,
                 timerInstalled, audio, audioLogged, apc, frames, simTicks,
                 updatesInFrame, ticksSinceRender, bufferTick, renderedTick>>

\* await setupPipeline(gameState), then the rest of start(): the audio
\* promise is created and chained, not awaited, and the loop is installed
StartResume ==
  /\ StartOnly
  /\ spc = "awaitPipeline"
  /\ IF lutStorageThrows
     THEN /\ spc' = "rejected"
          /\ startError' =
               [message |-> "localStorage.getItem threw", type |-> "none"]
          /\ UNCHANGED <<audio, timerInstalled, loopInstalled>>
     ELSE /\ spc' = "returned"
          /\ startError' = startError
          /\ audio' = "pending"
          /\ timerInstalled' = (variant = "timer")
          /\ loopInstalled' = TRUE
  /\ UNCHANGED <<variant, sceneMaterials, lutStorageThrows, configured,
                 audioLogged, apc, frames, simTicks, updatesInFrame,
                 ticksSinceRender, bufferTick, renderedTick>>

\* the audio promise resolves
AudioResolve ==
  /\ StartOnly
  /\ audio = "pending"
  /\ apc = "idle"
  /\ audio' = "resolved"
  /\ UNCHANGED <<variant, sceneMaterials, lutStorageThrows, spc, startError,
                 configured, loopInstalled, timerInstalled, audioLogged, apc,
                 frames, simTicks, updatesInFrame, ticksSinceRender,
                 bufferTick, renderedTick>>

\* the audio promise rejects
AudioReject ==
  /\ StartOnly
  /\ audio = "pending"
  /\ apc = "idle"
  /\ audio' = "rejected"
  /\ LET out == AudioRejectionCaught(
                  [message |-> "Failed to load audio", type |-> "none"])
     IN /\ audioLogged' = out.logged
        /\ startError' =
             IF out.error = NoStartError THEN startError ELSE out.error
  /\ UNCHANGED <<variant, sceneMaterials, lutStorageThrows, spc, configured,
                 loopInstalled, timerInstalled, apc, frames, simTicks,
                 updatesInFrame, ticksSinceRender, bufferTick, renderedTick>>

\* the browser calls animate()
FrameBegin ==
  /\ StartOnly
  /\ loopInstalled
  /\ apc = "idle"
  /\ frames < MaxFrames
  /\ apc' = "animate"
  /\ ticksSinceRender' = 0
  /\ UNCHANGED <<variant, sceneMaterials, lutStorageThrows, spc, startError,
                 configured, loopInstalled, timerInstalled, audio, audioLogged,
                 frames, simTicks, updatesInFrame, bufferTick, renderedTick>>

\* gameState.update(...): every entity's update() runs to completion
GameStateUpdate ==
  /\ simTicks' = simTicks + 1
  /\ bufferTick' = simTicks + 1
  /\ updatesInFrame' = updatesInFrame + 1
  /\ ticksSinceRender' = IF frames > 0 /\ apc # "animate"
                         THEN ticksSinceRender + 1 ELSE ticksSinceRender

\* animate() up to pipeline.render(): controls, gameState.update(delta * 10)
\* in the "frame" variant, camera follow, onRender
AnimateUpdate ==
  /\ StartOnly
  /\ apc = "animate"
  /\ apc' = "updated"
  /\ IF variant = "frame"
     THEN GameStateUpdate
     ELSE UNCHANGED <<simTicks, bufferTick, updatesInFrame, ticksSinceRender>>
  /\ UNCHANGED <<variant, sceneMaterials, lutStorageThrows, spc, startError,
                 configured, loopInstalled, timerInstalled, audio, audioLogged,
                 frames, renderedTick>>

\* pipeline.render() starts and reads the instance buffers
PipelineRender ==
  /\ StartOnly
  /\ apc = "updated"
  /\ apc' = "render"
  /\ renderedTick' = bufferTick
  /\ UNCHANGED <<variant, sceneMaterials, lutStorageThrows, spc, startError,
                 configured, loopInstalled, timerInstalled, audio, audioLogged,
                 frames, simTicks, updatesInFrame, ticksSinceRender,
                 bufferTick>>

\* pipeline.render() and animate() return
FrameEnd ==
  /\ StartOnly
  /\ apc = "render"
  /\ apc' = "idle"
  /\ frames' = frames + 1
  /\ updatesInFrame' = 0
  /\ UNCHANGED <<variant, sceneMaterials, lutStorageThrows, spc, startError,
                 configured, loopInstalled, timerInstalled, audio, audioLogged,
                 simTicks, ticksSinceRender, bufferTick, renderedTick>>

\* the interval timer fires between two tasks: gameState.update(1 / 20)
TimerTick ==
  /\ StartOnly
  /\ timerInstalled
  /\ apc = "idle"
  /\ simTicks < MaxTimerTicks
  /\ GameStateUpdate
  /\ UNCHANGED <<variant, sceneMaterials, lutStorageThrows, spc, startError,
                 configured, loopInstalled, timerInstalled, audio, audioLogged,
                 apc, frames, renderedTick>>

(***************************************************************************)
(* The BRDF LUT cache (envMaps.ts).  A string is a sequence of characters: *)
(* 0..63 are the base64 alphabet, 64 is "=", 65 is any other character.    *)
(***************************************************************************)
BRDF_LUT_SIZE == LutSize

BRDF_LUT_CACHE_KEY == "brdfLUT_v1_512"

\* a key of the same origin's localStorage that is not the LUT's
OtherKey == "theatre"

Keys == {BRDF_LUT_CACHE_KEY, OtherKey}

chunkSize == 32768

LutBytes == BRDF_LUT_SIZE * BRDF_LUT_SIZE * 4

NoItem == [present |-> FALSE, chars |-> <<>>]

Item(chars) == [present |-> TRUE, chars |-> chars]

Min(a, b) == IF a <= b THEN a ELSE b

\* btoa on a binary string of char codes 0..255
RECURSIVE Btoa(_)
Btoa(b) ==
  IF Len(b) = 0 THEN <<>>
  ELSE IF Len(b) = 1
       THEN <<b[1] \div 4, (b[1] % 4) * 16, 64, 64>>
  ELSE IF Len(b) = 2
       THEN <<b[1] \div 4, (b[1] % 4) * 16 + (b[2] \div 16),
              (b[2] % 16) * 4, 64>>
  ELSE <<b[1] \div 4, (b[1] % 4) * 16 + (b[2] \div 16),
         (b[2] % 16) * 4 + (b[3] \div 64), b[3] % 64>>
       \o Btoa(SubSeq(b, 4, Len(b)))

\* the data characters of a base64 string: up to two trailing "=" of a
\* string whose length is a multiple of four are removed
StripPadding(c) ==
  IF Len(c) > 0 /\ Len(c) % 4 = 0 /\ c[Len(c)] = 64
  THEN IF c[Len(c) - 1] = 64
       THEN SubSeq(c, 1, Len(c) - 2)
       ELSE SubSeq(c, 1, Len(c) - 1)
  ELSE c

RECURSIVE DecodeSextets(_)
DecodeSextets(d) ==
  IF Len(d) <= 1 THEN <<>>
  ELSE IF Len(d) = 2
       THEN <<d[1] * 4 + (d[2] \div 16)>>
  ELSE IF Len(d) = 3
       THEN <<d[1] * 4 + (d[2] \div 16), (d[2] % 16) * 16 + (d[3] \div 4)>>
  ELSE <<d[1] * 4 + (d[2] \div 16), (d[2] % 16) * 16 + (d[3] \div 4),
         (d[3] % 4) * 64 + d[4]>>
       \o DecodeSextets(SubSeq(d, 5, Len(d)))

\* atob: throws on a character outside the alphabet and on a data length
\* of 4k + 1
Atob(c) ==
  LET d == StripPadding(c)
  IN IF Len(d) % 4 = 1 \/ \E k \in 1..Len(d) : d[k] \notin 0..63
     THEN [ok |-> FALSE, bytes |-> <<>>]
     ELSE [ok |-> TRUE, bytes |-> DecodeSextets(d)]

\* the loop stopping before a last chunk that is not full
RECURSIVE BinaryStringWholeChunks(_, _, _)
BinaryStringWholeChunks(bytes, i, chunk) ==
  IF i + chunk > Len(bytes) THEN <<>>
  ELSE SubSeq(bytes, i + 1, i + chunk)
       \o BinaryStringWholeChunks(bytes, i + chunk, chunk)

\* the loop of encodeBytesToBase64 for a chunk size: the binary string,
\* chunk by chunk (subarray clamps its end to the length)
RECURSIVE BinaryStringBy(_, _, _)
BinaryStringBy(bytes, i, chunk) ==
  IF i >= Len(bytes) THEN <<>>
  ELSE SubSeq(bytes, i + 1, Min(i + chunk, Len(bytes)))
       \o BinaryStringBy(bytes, i + chunk, chunk)

BinaryString(bytes, i) == BinaryStringBy(bytes, i, chunkSize)

encodeBytesToBase64(bytes) == Btoa(BinaryString(bytes, 0))

decodeBase64ToBytes(base64) == Atob(base64)

\* loadBrdfLUTFromCache: "null", the texture made of the cached bytes, or
\* the exception of getItem
loadBrdfLUTFromCache(usable, gThrows, st) ==
  IF ~usable THEN [kind |-> "null", bytes |-> <<>>]
  ELSE IF gThrows THEN [kind |-> "raised", bytes |-> <<>>]
  ELSE LET cached == st[BRDF_LUT_CACHE_KEY]
       IN IF ~cached.present \/ cached.chars = <<>>
          THEN [kind |-> "null", bytes |-> <<>>]
          ELSE LET decoded == decodeBase64ToBytes(cached.chars)
               IN IF ~decoded.ok THEN [kind |-> "null", bytes |-> <<>>]
                  ELSE IF Len(decoded.bytes) # LutBytes
                       THEN [kind |-> "null", bytes |-> <<>>]
                       ELSE [kind |-> "texture", bytes |-> decoded.bytes]

\* saveBrdfLUTToCache writing nothing
saveBrdfLUTNowhere(usable, sThrows, st, bytes) == st

\* saveBrdfLUTToCache: the store it leaves
saveBrdfLUTToCache(usable, sThrows, st, bytes) ==
  IF ~usable THEN st
  ELSE IF sThrows THEN st
  ELSE [st EXCEPT ![BRDF_LUT_CACHE_KEY] = Item(encodeBytesToBase64(bytes))]

\* what readRenderTargetPixels can deliver
PixelReadbacks ==
  { [k \in 1..LutBytes |-> (k * 67) % 256],
    [k \in 1..LutBytes |-> 255 - ((k * 5) % 256)] }

\* what the cache entry can hold
CacheEntries ==
  { NoItem,
    Item(<<>>),
    Item(<<65, 0, 0, 0>>),
    Item(<<7>>),
    Item(Btoa(<<1, 2, 3>>)),
    Item(Btoa([k \in 1..(LutBytes + 1) |-> k])),
    Item(Btoa([k \in 1..LutBytes |-> 9])) }
  \cup {Item(Btoa(px)) : px \in PixelReadbacks}

NoResult == [kind |-> "none", bytes |-> <<>>]

LutInit ==
  /\ storageUsable = TRUE
  /\ getThrows = FALSE
  /\ setThrows = FALSE
  /\ store \in [Keys -> {NoItem, Item(<<1, 2, 3, 4>>)}]
  /\ gpuPixels = <<>>
  /\ lutResult = NoResult
  /\ lutCalls = 0
  /\ lutRenders = 0
  /\ storeBefore = store

\* generateBrdfLUT(renderer): the lookup, and on a miss the rendering, the
\* read-back and the save
GenerateBrdfLUT(usable, gThrows, sThrows, pixels) ==
  /\ LutOnly
  /\ lutCalls < MaxLutCalls
  /\ lutCalls' = lutCalls + 1
  /\ storageUsable' = usable
  /\ getThrows' = gThrows
  /\ setThrows' = sThrows
  /\ storeBefore' = store
  /\ LET cachedTexture == loadBrdfLUTFromCache(usable, gThrows, store)
     IN IF cachedTexture.kind = "raised"
        THEN /\ lutResult' = [kind |-> "raised", bytes |-> <<>>]
             /\ UNCHANGED <<store, gpuPixels, lutRenders>>
        ELSE IF cachedTexture.kind = "texture"
        THEN /\ lutResult' = [kind |-> "cached", bytes |-> cachedTexture.bytes]
             /\ UNCHANGED <<store, gpuPixels, lutRenders>>
        ELSE /\ lutRenders' = lutRenders + 1
             /\ gpuPixels' = pixels
             /\ store' = saveBrdfLUTToCache(usable, sThrows, store, pixels)
             /\ lutResult' = [kind |-> "computed", bytes |-> pixels]

\* something else of the origin (another version, the user, another tab)
\* rewrites or removes an entry of the store between two calls
StorageChange(key, item) ==
  /\ LutOnly
  /\ store[key] # item
  /\ store' = [store EXCEPT ![key] = item]
  /\ lutResult' = NoResult
  /\ storeBefore' = store'
  /\ UNCHANGED <<storageUsable, getThrows, setThrows, gpuPixels, lutCalls,
                 lutRenders>>

(***************************************************************************)
(* buildInstanced (common/instancedHelpers.ts).  A cell of an attribute    *)
(* array records which instance, attribute and component was written to    *)
(* it last.                                                                *)
(***************************************************************************)
\* userData.attributes of the instanced solid-state material
AttributeDescs ==
  << [name |-> "color", size |-> 3],
     [name |-> "emissiveIntensity", size |-> 1],
     [name |-> "keyData", size |-> 4] >>

AttributeNames == {AttributeDescs[d].name : d \in DOMAIN AttributeDescs}

Missing == [kind |-> "missing", size |-> 0]

Number == [kind |-> "number", size |-> 1]

Vector(n) == [kind |-> "vector", size |-> n]

\* the materials an instance can carry: the well-shaped one first
InstanceMaterials ==
  { [color |-> Vector(3), emissiveIntensity |-> Number, keyData |-> Vector(4)],
    [color |-> Number, emissiveIntensity |-> Number, keyData |-> Vector(4)],
    [color |-> Vector(4), emissiveIntensity |-> Number, keyData |-> Vector(4)],
    [color |-> Vector(2), emissiveIntensity |-> Number, keyData |-> Vector(4)],
    [color |-> Vector(3), emissiveIntensity |-> Vector(3), keyData |-> Vector(4)],
    [color |-> Vector(3), emissiveIntensity |-> Number, keyData |-> Vector(3)],
    [color |-> Vector(3), emissiveIntensity |-> Missing, keyData |-> Vector(4)],
    [color |-> Vector(3), emissiveIntensity |-> Number, keyData |-> Missing] }

ObjLists == UNION {[1..n -> InstanceMaterials] : n \in 1..MaxObjs}

ZeroCell == [obj |-> 0, comp |-> 0]

\* new Float32Array(objs.length * attr.size)
NewArray(n, size) == [k \in 1..(n * size) |-> ZeroCell]

\* value.toArray(array, offset) and array.set([value], offset) for n
\* components of instance i: an index past the end of a typed array is
\* not written
WriteAt(array, offset, i, n) ==
  [k \in DOMAIN array |->
     IF k - offset \in 1..n THEN [obj |-> i, comp |-> k - offset]
     ELSE array[k]]

\* lines 32-37 for one instance and one attribute
PackValue(array, i, desc, value) ==
  IF value.kind = "number"
  THEN WriteAt(array, (i - 1) * desc.size, i, 1)
  ELSE WriteAt(array, (i - 1) * desc.size, i, value.size)

\* the packing loop for one attribute over instances i..upTo
RECURSIVE PackAttribute(_, _, _, _, _)
PackAttribute(array, os, desc, i, upTo) ==
  IF i > upTo THEN array
  ELSE PackAttribute(PackValue(array, i, desc, os[i][desc.name]),
                     os, desc, i + 1, upTo)

\* the first instance at which attrValue.toArray is called on undefined,
\* or 0
FirstUndefined(os) ==
  LET bad == {i \in DOMAIN os :
                \E a \in AttributeNames : os[i][a].kind = "missing"}
  IN IF bad = {} THEN 0 ELSE CHOOSE i \in bad : \A j \in bad : i <= j

NoError == [message |-> "none", object |-> 0, attribute |-> "none"]

UndefinedError ==
  [message |-> "TypeError: Cannot read properties of undefined (reading 'toArray')",
   object |-> 0, attribute |-> "none"]

EmptyArrays == [a \in AttributeNames |-> <<>>]

\* the instanced attributes of buildInstancedLights and their sizes
LightSizes ==
  [instanceMatrix |-> 16, color |-> 3, intensity |-> 1, flickerIntensity |-> 1]

NoLightArrays == [a \in DOMAIN LightSizes |-> <<>>]

\* a loop writing `width` values per instance at offset i * stride, for
\* instances i..upTo
RECURSIVE PackSlots(_, _, _, _, _)
PackSlots(array, stride, width, i, upTo) ==
  IF i > upTo THEN array
  ELSE PackSlots(WriteAt(array, (i - 1) * stride, i, width),
                 stride, width, i + 1, upTo)

\* the publish loop writing each transform half a slot too early
PublishTransformsShifted(array, n) == PackSlots(array, 8, 16, 1, n)

\* update(), lines 216-221: MATRIX.toArray(buffer, i * 16) for every agent
PublishTransforms(array, n) == PackSlots(array, 16, 16, 1, n)

BuildInit ==
  /\ objs \in ObjLists
  /\ bpc = "ready"
  /\ buildError = NoError
  /\ matrixArray = <<>>
  /\ attributeArrays = EmptyArrays
  /\ lightArrays = NoLightArrays
  /\ published = 0

\* buildInstanced(geom, objs)
BuildInstanced ==
  /\ BuildOnly
  /\ bpc = "ready"
  /\ objs' = objs
  /\ IF FirstUndefined(objs) = 0
     THEN /\ bpc' = "returned"
          /\ buildError' = buildError
          /\ matrixArray' =
               PackSlots(NewArray(Len(objs), 16), 16, 16, 1, Len(objs))
          /\ attributeArrays' =
               [a \in AttributeNames |->
                  LET desc == CHOOSE d \in {AttributeDescs[x] : x \in DOMAIN AttributeDescs} :
                                d.name = a
                  IN PackAttribute(NewArray(Len(objs), desc.size), objs, desc,
                                   1, Len(objs))]
     ELSE /\ bpc' = "threw"
          /\ buildError' = UndefinedError
          /\ UNCHANGED <<matrixArray, attributeArrays>>
  /\ UNCHANGED <<lightArrays, published>>

\* buildInstancedLights(lightDatas), with one light per object as in
\* createLightEntities
BuildInstancedLights ==
  /\ BuildOnly
  /\ bpc = "returned"
  /\ lightArrays = NoLightArrays
  /\ lightArrays' =
       [a \in DOMAIN LightSizes |->
          PackSlots(NewArray(Len(objs), LightSizes[a]), LightSizes[a],
                    LightSizes[a], 1, Len(objs))]
  /\ UNCHANGED <<objs, bpc, buildError, matrixArray, attributeArrays, published>>

\* the transforms update() publishes into both instanceMatrix arrays
UpdatePublish(maxTicks) ==
  /\ BuildOnly
  /\ bpc = "returned"
  /\ lightArrays # NoLightArrays
  /\ published < maxTicks
  /\ published' = published + 1
  /\ matrixArray' = PublishTransforms(matrixArray, Len(objs))
  /\ lightArrays' =
       [lightArrays EXCEPT
          !.instanceMatrix = PublishTransforms(lightArrays.instanceMatrix, Len(objs))]
  /\ UNCHANGED <<objs, bpc, buildError, attributeArrays>>

\* the caller hands buildInstanced another list
BuildAgain(os) ==
  /\ BuildOnly
  /\ bpc # "ready"
  /\ objs' = os
  /\ bpc' = "ready"
  /\ buildError' = NoError
  /\ matrixArray' = <<>>
  /\ attributeArrays' = EmptyArrays
  /\ lightArrays' = NoLightArrays
  /\ published' = 0

(***************************************************************************)
(* The AudioManager (audio.ts) in its two variants, attached to the        *)
(* timeline sequence or playing a media element, and the loudness uniform  *)
(* of the instanced solid-state material.  Decibels are integers; values   *)
(* in 0..1 are fixed-point, Unit steps per 1.0.                            *)
(***************************************************************************)
minDecibels == -100

maxDecibels == -30

\* ctx.sampleRate / analyser.fftSize, for a context of 48 kHz
binHz == 24000 \div BinCount

\* what the analyser can deliver: silence, a flat quiet level, a ramp, full level
Spectra ==
  { [k \in 1..BinCount |-> -150],
    [k \in 1..BinCount |-> -65],
    [k \in 1..BinCount |-> -100 + 8 * k],
    [k \in 1..BinCount |-> -30],
    [k \in 1..BinCount |-> 0] }

\* getFrequencyData(): an empty array without an analyser
getFrequencyData(analyser, spectrum) ==
  IF analyser = 0 THEN <<>> ELSE spectrum

\* the binHz getter
BinHzOf(ctx, analyser) == IF ~ctx \/ analyser = 0 THEN 0 ELSE binHz

RECURSIVE SumRange(_, _, _)
SumRange(freq, lo, hi) ==
  IF lo > hi THEN 0 ELSE freq[lo + 1] + SumRange(freq, lo + 1, hi)

\* avgRange answering 0 dB whatever it is given
avgRangeZero(freq, hz, loHz, hiHz) == 0

\* avgRange(freq, binHz, loHz, hiHz), in Unit steps per decibel
avgRange(freq, hz, loHz, hiHz) ==
  IF Len(freq) = 0 \/ hz = 0 THEN minDecibels * Unit
  ELSE LET loIdx == loHz \div hz
           hiIdx == Min(Len(freq) - 1, (hiHz + hz - 1) \div hz)
       IN IF loIdx > hiIdx THEN minDecibels * Unit
          ELSE TruncDiv(SumRange(freq, loIdx, hiIdx) * Unit, hiIdx - loIdx + 1)

\* the six bands: [loHz, hiHz)
BandRanges ==
  << <<20, 60>>, <<60, 250>>, <<250, 2000>>, <<2000, 6000>>,
     <<6000, 12000>>, <<12000, 20000>> >>

\* getBands()
getBands(ctx, analyser, spectrum) ==
  [b \in DOMAIN BandRanges |->
     avgRange(getFrequencyData(analyser, spectrum), BinHzOf(ctx, analyser),
              BandRanges[b][1], BandRanges[b][2])]

\* norm of getNormalisedBands: max(0, min(1, (v - minDecibels) / range))
norm(v) ==
  LET q == TruncDiv(v - minDecibels * Unit, maxDecibels - minDecibels)
  IN IF q < 0 THEN 0 ELSE IF q > Unit THEN Unit ELSE q

getNormalisedBands(ctx, analyser, spectrum) ==
  [b \in DOMAIN BandRanges |-> norm(getBands(ctx, analyser, spectrum)[b])]

\* getEnergy()
getEnergy(ctx, analyser, spectrum) ==
  LET bands == getNormalisedBands(ctx, analyser, spectrum)
  IN TruncDiv(bands[1] + bands[2] + bands[3] + bands[4] + bands[5] + bands[6],
              6)

\* onBeforeRender: loudness = getEnergy() * 10.0 - 10.0
LoudnessOf(e) == e * 10 - 10 * Unit

AudioInit ==
  /\ amVariant \in {"sequence", "element"}
  /\ amCtx = FALSE
  /\ amAnalyser = 0
  /\ amGain = 0
  /\ amSource = 0
  /\ amLoaded = FALSE
  /\ connected = {}
  /\ awaiting = {}
  /\ amCalls = 0
  /\ amFailed = {}
  /\ playing = FALSE
  /\ lastOp = "none"
  /\ playingBefore = FALSE
  /\ energy = 0
  /\ loudness = 0
  /\ trackAtRender = FALSE

\* attachToSequence(sequence, source) / load(url) up to the await: the
\* context is created, the graph the fields refer to is torn down, and in
\* the sequence variant the new analyser is connected to the destination
AttachBegin ==
  /\ AudioOnly
  /\ amCalls < MaxAudioCalls
  /\ amCalls' = amCalls + 1
  /\ amCtx' = TRUE
  /\ amAnalyser' = 0
  /\ amGain' = 0
  /\ amSource' = 0
  /\ amLoaded' = FALSE
  /\ connected' = IF amVariant = "sequence"
                  THEN (connected \ {amAnalyser}) \cup {amCalls + 1}
                  ELSE connected \ {amAnalyser}
  /\ playing' = IF amVariant = "element" THEN FALSE ELSE playing
  /\ awaiting' = awaiting \cup {amCalls + 1}
  /\ lastOp' = "attach"
  /\ playingBefore' = playing
  /\ UNCHANGED <<amVariant, amFailed, energy, loudness, trackAtRender>>

\* the awaited promise of call id resolves and the call runs to its end: the
\* fields are assigned, in the element variant after the graph is built
AttachResolve(id) ==
  /\ AudioOnly
  /\ id \in awaiting
  /\ awaiting' = awaiting \ {id}
  /\ amAnalyser' = id
  /\ amGain' = id
  /\ amSource' = id
  /\ amLoaded' = TRUE
  /\ connected' = IF amVariant = "element" THEN connected \cup {id}
                  ELSE connected
  /\ UNCHANGED <<amVariant, amCtx, amCalls, amFailed, playing, lastOp,
                 playingBefore, energy, loudness, trackAtRender>>

\* the awaited promise of call id rejects: the call ends there
AttachReject(id) ==
  /\ AudioOnly
  /\ id \in awaiting
  /\ awaiting' = awaiting \ {id}
  /\ amFailed' = amFailed \cup {id}
  /\ UNCHANGED <<amVariant, amCtx, amAnalyser, amGain, amSource, amLoaded,
                 connected, amCalls, playing, lastOp, playingBefore, energy,
                 loudness, trackAtRender>>

\* dispose(), called while no attachToSequence / load is suspended: the
\* graph of the fields is torn down and the context closed
AudioDispose ==
  /\ AudioOnly
  /\ awaiting = {}
  /\ amCtx
  /\ amCtx' = FALSE
  /\ amAnalyser' = 0
  /\ amGain' = 0
  /\ amSource' = 0
  /\ amLoaded' = FALSE
  /\ connected' = {}
  /\ playing' = IF amVariant = "element" THEN FALSE ELSE playing
  /\ lastOp' = "dispose"
  /\ playingBefore' = playing
  /\ UNCHANGED <<amVariant, awaiting, amCalls, amFailed, energy, loudness,
                 trackAtRender>>

\* play(): nothing without a sequence / an element
AudioPlay ==
  /\ AudioOnly
  /\ playing' = IF amSource = 0 THEN playing ELSE TRUE
  /\ lastOp' = "play"
  /\ playingBefore' = playing
  /\ UNCHANGED <<amVariant, amCtx, amAnalyser, amGain, amSource, amLoaded,
                 connected, awaiting, amCalls, amFailed, energy, loudness,
                 trackAtRender>>

\* pause()
AudioPause ==
  /\ AudioOnly
  /\ playing' = IF amSource = 0 THEN playing ELSE FALSE
  /\ lastOp' = "pause"
  /\ playingBefore' = playing
  /\ UNCHANGED <<amVariant, amCtx, amAnalyser, amGain, amSource, amLoaded,
                 connected, awaiting, amCalls, amFailed, energy, loudness,
                 trackAtRender>>

\* what toggle() leaves of `playing`: the sequence variant pauses and then
\* plays; the element variant plays when paused and pauses otherwise
ToggleResult(v, was) == IF v = "sequence" THEN TRUE ELSE ~was

\* toggle(), with a sequence / an element attached
AudioToggle ==
  /\ AudioOnly
  /\ amSource # 0
  /\ playing' = ToggleResult(amVariant, playing)
  /\ lastOp' = "toggle"
  /\ playingBefore' = playing
  /\ UNCHANGED <<amVariant, amCtx, amAnalyser, amGain, amSource, amLoaded,
                 connected, awaiting, amCalls, amFailed, energy, loudness,
                 trackAtRender>>

\* onBeforeRender of the instanced solid-state material, the analyser
\* delivering `spectrum`
SolidstateBeforeRender(spectrum) ==
  /\ AudioOnly
  /\ energy' = getEnergy(amCtx, amAnalyser, spectrum)
  /\ loudness' = LoudnessOf(energy')
  /\ trackAtRender' = (amAnalyser # 0)
  /\ lastOp' = "render"
  /\ playingBefore' = playing
  /\ UNCHANGED <<amVariant, amCtx, amAnalyser, amGain, amSource, amLoaded,
                 connected, awaiting, amCalls, amFailed, playing>>

(***************************************************************************)
(* The camera-follow controller (connectCameraFollowToTheatre) over the    *)
(* light entity's accessors.  Indices are reals in steps of 1/Unit.        *)
(***************************************************************************)
MaxOf(a, b) == IF a >= b THEN a ELSE b

\* lightEntity.count
count == NumBoids

\* the followIndex values the timeline delivers: below the range, in it
\* (whole and fractional) and above it
FollowValues ==
  {-Unit, 0, Unit \div 2, Unit, (3 * Unit) \div 2, (count - 1) * Unit,
   count * Unit - 1, count * Unit, 1000 * Unit}

Offsets == {<<0, 10 * Unit, -20 * Unit>>, <<0, 0, 0>>}

Smoothings == {Unit \div 20, Unit}

\* Math.floor(Math.max(0, Math.min(v, count - 1))) without the Math.floor
ClampFollowIndexNoFloor(v, n) == MaxOf(0, Min(v, (n - 1) * Unit))

\* Math.floor(Math.max(0, Math.min(v, count - 1)))
ClampFollowIndex(v, n) == (MaxOf(0, Min(v, (n - 1) * Unit)) \div Unit) * Unit

\* array[index].field: array[index] is undefined unless index is a whole
\* number of 0 .. length-1, and reading a field of undefined throws
ElementAt(array, index) ==
  IF index \in {k * Unit : k \in 0..(Cardinality(DOMAIN array) - 1)}
  THEN [raised |-> FALSE, value |-> array[(index \div Unit) + 1]]
  ELSE [raised |-> TRUE, value |-> Zero3]

getInstancePosition(index) == ElementAt(position, index)

\* objects[index].quaternion: the rotation taking FORWARD to the heading;
\* before the first update() every object carries the identity, under which
\* the heading is FORWARD
getInstanceQuaternion(index) == ElementAt(heading, index)

\* a.lerp(b, t)
Lerp(a, b, t) == VAdd(a, VMulDiv(VSub(b, a), t, Unit))

FollowInit ==
  /\ camEnabled = FALSE
  /\ camFollowIndex = 0
  /\ camOffset = <<0, 10 * Unit, -20 * Unit>>
  /\ camSmoothing = Unit \div 20
  /\ camValue = 0
  /\ camInitialized = FALSE
  /\ camPosition = Zero3
  /\ camLookAt = Zero3
  /\ camCalled = FALSE
  /\ camArg = 0
  /\ camRaised = FALSE
  /\ camFrames = 0
  /\ camSeenEnabled = FALSE
  /\ camWasDisabled = TRUE
  /\ camSnaps = 0

\* if (!_initialized) { v.copy(target) } skipped: v stays where it was
SnapNever(initialized, current, target) == current

\* if (!_initialized) { v.copy(target) }: the vector the lerp starts from
SnapUnlessInitialized(initialized, current, target) ==
  IF initialized THEN current ELSE target

\* obj.onValuesChange of "Camera Follow"
CameraFollowValuesChange(en, v, off, sm) ==
  /\ FollowOnly
  /\ camEnabled' = en
  /\ camFollowIndex' = ClampFollowIndex(v, count)
  /\ camOffset' = off
  /\ camSmoothing' = sm
  /\ camValue' = v
  /\ camWasDisabled' = (camWasDisabled \/ ~en)
  /\ UNCHANGED <<camInitialized, camPosition, camLookAt, camCalled, camArg,
                 camRaised, camFrames, camSeenEnabled, camSnaps>>

\* CameraFollowController.update
CameraFollowUpdate(maxFrames) ==
  /\ FollowOnly
  /\ camFrames < maxFrames
  /\ camFrames' = camFrames + 1
  /\ UNCHANGED <<camEnabled, camFollowIndex, camOffset, camSmoothing, camValue>>
  /\ camSeenEnabled' = camEnabled
  /\ camWasDisabled' = ~camEnabled
  /\ IF ~camEnabled
     THEN /\ camInitialized' = FALSE
          /\ UNCHANGED <<camPosition, camLookAt, camCalled, camArg, camRaised,
                         camSnaps>>
     ELSE LET boidPos == getInstancePosition(camFollowIndex)
              boidQuat == getInstanceQuaternion(camFollowIndex)
              \* offset rotated by the identity, plus the agent's position
              targetPos == VAdd(camOffset, boidPos.value)
          IN /\ camCalled' = TRUE
             /\ camArg' = camFollowIndex
             /\ IF boidPos.raised \/ boidQuat.raised
                THEN /\ camRaised' = TRUE
                     /\ UNCHANGED <<camInitialized, camPosition, camLookAt,
                                    camSnaps>>
                ELSE /\ camRaised' = camRaised
                     /\ camInitialized' = TRUE
                     /\ camSnaps' = IF camInitialized THEN camSnaps
                                    ELSE camSnaps + 1
                     /\ camPosition' =
                          Lerp(SnapUnlessInitialized(camInitialized,
                                                     camPosition, targetPos),
                               targetPos, camSmoothing)
                     /\ camLookAt' =
                          Lerp(SnapUnlessInitialized(camInitialized, camLookAt,
                                                     boidPos.value),
                               boidPos.value, camSmoothing)

(***************************************************************************)
(* grid.generate and the generators it calls: which lists reach            *)
(* buildInstanced.  A string is a sequence of characters.                  *)
(***************************************************************************)
system2 ==
  [axiom |-> <<"A", "m">>,
   rules |-> [c \in {"A", "B", "m"} |->
                CASE c = "A" -> <<"F", "[", "X", "B", "m", "]",
                                  "[", "x", "B", "m", "]">>
                  [] c = "B" -> <<"F", "[", "Z", "A", "m", "]",
                                  "[", "z", "A", "m", "]">>
                  [] c = "m" -> <<"M">>]]

\* one pass of the inner loop: system.rules[char] ?? char
RECURSIVE Rewrite(_, _)
Rewrite(rules, str) ==
  IF str = <<>> THEN <<>>
  ELSE (IF Head(str) \in DOMAIN rules THEN rules[Head(str)] ELSE <<Head(str)>>)
       \o Rewrite(rules, Tail(str))

RECURSIVE evaluateLSystem(_, _)
evaluateLSystem(system, iterations) ==
  IF iterations = 0 THEN system.axiom
  ELSE Rewrite(system.rules, evaluateLSystem(system, iterations - 1))

\* how many instructions push an object of the given characters
Pushed(instructions, chars) ==
  Cardinality({k \in DOMAIN instructions : instructions[k] \in chars})

\* the objects the traversal can find: userData flag and shader name
SceneKinds ==
  { [flag |-> "box", shader |-> "default"],
    [flag |-> "box", shader |-> "solidstate"],
    [flag |-> "sphere", shader |-> "default"],
    [flag |-> "cylinder", shader |-> "default"],
    [flag |-> "none", shader |-> "default"] }

SceneLists == UNION {[1..n -> SceneKinds] : n \in 0..MaxSceneObjs}

Flagged(os, flag) == Cardinality({k \in DOMAIN os : os[k].flag = flag})

\* the call without its length test
BuildAlways(site, n) == <<[site |-> site, n |-> n]>>

\* if (list.length > 0) buildInstanced(geometry, list)
BuildIfAny(site, n) == IF n > 0 THEN <<[site |-> site, n |-> n]>> ELSE <<>>

\* boxInstancingGroups: one group per shader name that some box carries
RECURSIVE BuildBoxGroups(_, _)
BuildBoxGroups(os, shaders) ==
  IF shaders = {} THEN <<>>
  ELSE LET sh == CHOOSE x \in shaders : TRUE
           n == Cardinality({k \in DOMAIN os :
                               os[k].flag = "box" /\ os[k].shader = sh})
       IN BuildIfAny("boxes", n) \o BuildBoxGroups(os, shaders \ {sh})

GenInit ==
  /\ sceneObjs \in SceneLists
  /\ gpc = "start"
  /\ builderCalls = <<>>

\* createLightEntities: BOID_COUNT objects are pushed before the call
CreateLightEntities ==
  /\ GenOnly
  /\ gpc = "start"
  /\ gpc' = "lights"
  /\ builderCalls' = builderCalls \o <<[site |-> "lightEntities", n |-> NumBoids]>>
  /\ UNCHANGED sceneObjs

\* createLSystemPlant
CreateLSystemPlant(iterations) ==
  /\ GenOnly
  /\ gpc = "lights"
  /\ gpc' = "plants"
  /\ LET instructions == evaluateLSystem(system2, iterations)
     IN builderCalls' =
          builderCalls
          \o <<[site |-> "lSystemCylinders",
                n |-> Pushed(instructions, {"F"})]>>
          \o BuildIfAny("lSystemSpheres", Pushed(instructions, {"m", "M"}))
  /\ UNCHANGED sceneObjs

\* the traversal of the group and the three instancing steps
InstanceScene ==
  /\ GenOnly
  /\ gpc = "plants"
  /\ gpc' = "done"
  /\ builderCalls' =
       builderCalls
       \o BuildBoxGroups(sceneObjs,
                         {sceneObjs[k].shader : k \in {j \in DOMAIN sceneObjs :
                                                         sceneObjs[j].flag = "box"}})
       \o BuildIfAny("spheres", Flagged(sceneObjs, "sphere"))
       \o BuildIfAny("cylinders", Flagged(sceneObjs, "cylinder"))
  /\ UNCHANGED sceneObjs

(***************************************************************************)
(* configureSceneObjects (scene.ts): the previous-frame world matrix of    *)
(* one drawn object.  A matrix value is a number; Matrix4 objects are      *)
(* named, so that two references to one object are told from two copies.   *)
(***************************************************************************)
MatrixValues == 0..MaxMatrixValue

PrevInit ==
  /\ matrix4 = [matrixWorld |-> 0, uniform |-> 0]
  /\ prevRef = "none"
  /\ isDynamic \in BOOLEAN
  /\ worldAtDraw = <<>>
  /\ uniformAtDraw = <<>>

\* lines 42-47 and 80-88: userData.previousWorldMatrix = object.matrixWorld
\* stores a reference to the object's own matrix
ConfigurePrevious ==
  /\ PrevOnly
  /\ prevRef = "none"
  /\ prevRef' = "matrixWorld"
  /\ UNCHANGED <<matrix4, isDynamic, worldAtDraw, uniformAtDraw>>

\* the object moves between two frames: updateMatrixWorld() rewrites
\* object.matrixWorld in place
ObjectMoves(v) ==
  /\ PrevOnly
  /\ v # matrix4.matrixWorld
  /\ matrix4' = [matrix4 EXCEPT !.matrixWorld = v]
  /\ UNCHANGED <<prevRef, isDynamic, worldAtDraw, uniformAtDraw>>

\* onAfterRender: previousWorldMatrix.copy(object.matrixWorld), installed
\* only on a dynamic object
AfterRender(m, ref, dyn) ==
  IF dyn THEN [m EXCEPT ![ref] = m.matrixWorld] ELSE m

\* the object is drawn in a frame: onBeforeRender copies
\* userData.previousWorldMatrix into the uniform, the draw uses it, and
\* onAfterRender runs
DrawObject(maxFrames) ==
  /\ PrevOnly
  /\ prevRef # "none"
  /\ Len(worldAtDraw) < maxFrames
  /\ LET before == [matrix4 EXCEPT !.uniform = matrix4[prevRef]]
     IN /\ worldAtDraw' = Append(worldAtDraw, before.matrixWorld)
        /\ uniformAtDraw' = Append(uniformAtDraw, before.uniform)
        /\ matrix4' = AfterRender(before, prevRef, isDynamic)
  /\ UNCHANGED <<prevRef, isDynamic>>

(***************************************************************************)
(* The state of a component while another one is studied.                  *)
(***************************************************************************)
FlockIdle ==
  /\ position = [i \in Boids |-> <<200 * Unit, 5 * Unit, 200 * Unit>>]
  /\ velocity = [i \in Boids |-> Zero3]
  /\ accelerations = [i \in Boids |-> Zero3]
  /\ center = <<200 * Unit, 5 * Unit, 200 * Unit>>
  /\ rng = 0
  /\ fpc = "idle"
  /\ fk = 1
  /\ deltaTime = 0
  /\ order = Identity
  /\ ticks = 0
  /\ pre = [pos |-> position, vel |-> velocity]
  /\ rng0 = 0
  /\ clamped = FALSE
  /\ lightsVisible = TRUE
  /\ objectsVisible = TRUE
  /\ objectsBuffer = position
  /\ lightsBuffer = [i \in Boids |-> LightMatrix(position[i])]
  /\ heading = [i \in Boids |-> FORWARD]

StartIdle ==
  /\ StartInit
  /\ variant = "frame"
  /\ sceneMaterials = <<"ShaderMaterial">>
  /\ lutStorageThrows = FALSE

LutIdle ==
  /\ LutInit
  /\ store = [k \in Keys |-> NoItem]

BuildIdle ==
  /\ BuildInit
  /\ objs = <<[color |-> Vector(3), emissiveIntensity |-> Number,
               keyData |-> Vector(4)]>>

AudioIdle ==
  /\ AudioInit
  /\ amVariant = "sequence"

FollowIdle == FollowInit

GenIdle ==
  /\ GenInit
  /\ sceneObjs = <<>>

(***************************************************************************)
(* The stencil gate of the IBL pass: the stencil state of the materials    *)
(* (index.tsx, datalake.ts, solidstate.ts) applied per fragment as WebGL   *)
(* applies it, on the depth-stencil texture the render targets were given  *)
(* by setupPipeline.                                                       *)
(***************************************************************************)
Pixels == 1..NumPixels

\* the depth-stencil texture handed to each render target (lines 39-41)
depthTextureOf ==
  [gBuffer |-> "depthStencilTexture", lightBuffer |-> "depthStencilTexture"]

DepthTextures == {"depthStencilTexture", "lightDepthStencil"}

\* an IBL material that passes the stencil test everywhere
iblShaderUngated ==
  [name |-> "iblShader", stencilWrite |-> TRUE, stencilFunc |-> "Always", stencilZPass |-> "Keep",
   stencilFail |-> "Keep", stencilZFail |-> "Keep", stencilFuncMask |-> 255,
   stencilWriteMask |-> 255, stencilRef |-> 1, depthTest |-> FALSE]

iblShader ==
  [name |-> "iblShader", stencilWrite |-> TRUE, stencilFunc |-> "Equal", stencilZPass |-> "Keep",
   stencilFail |-> "Keep", stencilZFail |-> "Keep", stencilFuncMask |-> 255,
   stencilWriteMask |-> 255, stencilRef |-> 1, depthTest |-> FALSE]

datalakeMaterialInstanced ==
  [name |-> "datalakeMaterialInstanced", stencilWrite |-> TRUE, stencilFunc |-> "Always", stencilZPass |-> "Replace",
   stencilFail |-> "Replace", stencilZFail |-> "Replace",
   stencilFuncMask |-> 255, stencilWriteMask |-> 255, stencilRef |-> 1,
   depthTest |-> TRUE]

datalakeMaterial ==
  [datalakeMaterialInstanced EXCEPT !.name = "datalakeMaterial"]

solidstateMaterialInstanced ==
  [datalakeMaterialInstanced EXCEPT !.name = "solidstateMaterialInstanced"]

solidstateMaterial ==
  [datalakeMaterialInstanced EXCEPT !.name = "solidstateMaterial"]

GBufferMaterials ==
  {datalakeMaterialInstanced, datalakeMaterial, solidstateMaterialInstanced,
   solidstateMaterial}

\* value & mask for the 8-bit masks of the materials
Masked(value, mask) == value % (mask + 1)

\* gl.stencilFunc(func, ref, mask) against the stored value
StencilTest(mat, value) ==
  LET r == Masked(mat.stencilRef, mat.stencilFuncMask)
      v == Masked(value, mat.stencilFuncMask)
  IN  CASE mat.stencilFunc = "Always" -> TRUE
        [] mat.stencilFunc = "Equal" -> r = v
        [] mat.stencilFunc = "NotEqual" -> r # v
        [] OTHER -> FALSE

\* gl.stencilOp: the value one operation leaves
StencilOp(op, mat, value) ==
  CASE op = "Replace" -> Masked(mat.stencilRef, mat.stencilWriteMask)
    [] op = "Zero" -> 0
    [] OTHER -> value

\* whether a fragment of the material reaches the colour attachments
FragmentWritten(mat, value, depthPasses) ==
  (~mat.stencilWrite \/ StencilTest(mat, value))
  /\ (~mat.depthTest \/ depthPasses)

\* the stencil value a fragment of the material leaves
FragmentStencil(mat, value, depthPasses) ==
  IF ~mat.stencilWrite THEN value
  ELSE IF ~StencilTest(mat, value) THEN StencilOp(mat.stencilFail, mat, value)
  ELSE IF mat.depthTest /\ ~depthPasses
       THEN StencilOp(mat.stencilZFail, mat, value)
  ELSE StencilOp(mat.stencilZPass, mat, value)

StencilInit ==
  /\ stencil = [t \in DepthTextures |-> [p \in Pixels |-> 0]]
  /\ lightPixels = [p \in Pixels |-> "none"]
  /\ rasterised = [p \in Pixels |-> "no"]
  /\ iblDone = {}
  /\ sphase = "gbuffer"

\* GBufferPass: a fragment of a mesh with one of the materials lands on p
GBufferFragment(mat, p, depthPasses) ==
  /\ StencilOnly
  /\ sphase = "gbuffer"
  /\ rasterised[p] # (IF depthPasses THEN "drawn" ELSE "hidden")
  /\ LET t == depthTextureOf.gBuffer
     IN  stencil' = [stencil EXCEPT
                       ![t][p] = FragmentStencil(mat, stencil[t][p], depthPasses)]
  /\ rasterised' = [rasterised EXCEPT
                      ![p] = IF depthPasses THEN "drawn" ELSE "hidden"]
  /\ UNCHANGED <<lightPixels, iblDone, sphase>>

\* LightPass: the direct lighting is accumulated into the light buffer
LightPassDraw ==
  /\ StencilOnly
  /\ sphase = "gbuffer"
  /\ sphase' = "ibl"
  /\ lightPixels' = [p \in Pixels |-> "direct"]
  /\ UNCHANGED <<stencil, rasterised, iblDone>>

\* IBLPass: the full-screen quad with iblShader produces its fragment at p
IblFragment(p) ==
  /\ StencilOnly
  /\ sphase = "ibl"
  /\ p \notin iblDone
  /\ LET t == depthTextureOf.lightBuffer
     IN  /\ stencil' = [stencil EXCEPT
                          ![t][p] = FragmentStencil(iblShader, stencil[t][p], TRUE)]
         /\ lightPixels' =
              [lightPixels EXCEPT
                 ![p] = IF FragmentWritten(iblShader, stencil[t][p], TRUE)
                        THEN "direct+ibl" ELSE lightPixels[p]]
  /\ iblDone' = iblDone \cup {p}
  /\ UNCHANGED <<rasterised, sphase>>

\* the next frame: GBufferPass starts from a cleared depth-stencil texture
FrameClear ==
  /\ StencilOnly
  /\ sphase = "ibl"
  /\ iblDone = Pixels
  /\ stencil' = [t \in DepthTextures |-> [p \in Pixels |-> 0]]
  /\ lightPixels' = [p \in Pixels |-> "none"]
  /\ rasterised' = [p \in Pixels |-> "no"]
  /\ iblDone' = {}
  /\ sphase' = "gbuffer"

(***************************************************************************)
(* The base64 codec of the cache on byte arrays of every length up to      *)
(* MaxBytes, with the source's chunk size and with a scaled one.           *)
(***************************************************************************)
ByteSamples == {0, 165, 255}

RECURSIVE ByteArrays(_)
ByteArrays(n) ==
  IF n = 0 THEN {<<>>}
  ELSE LET shorter == ByteArrays(n - 1)
       IN shorter \cup {Append(b, v) : b \in {a \in shorter : Len(a) = n - 1},
                                        v \in ByteSamples}

NoDecode == [ok |-> FALSE, bytes |-> <<>>]

CodecInit ==
  /\ codecBytes \in ByteArrays(MaxBytes)
  /\ codecChunk \in {ScaledChunk, chunkSize}
  /\ codecText = <<>>
  /\ codecOut = NoDecode
  /\ codecStep = "bytes"

\* encodeBytesToBase64(bytes)
EncodeBytes ==
  /\ CodecOnly
  /\ codecStep = "bytes"
  /\ codecText' = Btoa(BinaryStringBy(codecBytes, 0, codecChunk))
  /\ codecStep' = "encoded"
  /\ UNCHANGED <<codecBytes, codecChunk, codecOut>>

\* decodeBase64ToBytes(base64) on what was encoded
DecodeText ==
  /\ CodecOnly
  /\ codecStep = "encoded"
  /\ codecOut' = decodeBase64ToBytes(codecText)
  /\ codecStep' = "decoded"
  /\ UNCHANGED <<codecBytes, codecChunk, codecText>>

(***************************************************************************)
(* The interpreter loop of createLSystemPlant (lSystemPlants.ts 52-126)    *)
(* over evaluateLSystem(system2, n).  Lengths are reals in steps of        *)
(* 1/Unit; Math.random() delivers one of RandomValues.                     *)
(***************************************************************************)
cylinderLength == 2 * Unit

cylinderThickness == 3 * Unit

\* Math.PI / 6
angle == (5236 * Unit) \div 10000

RandomValues == {0, Unit \div 2}

\* new Vector3(0, len, 0).applyEuler(rotation), to first order in the angles
ForwardOf(len, rotation) ==
  << -TruncDiv(len * rotation[3], Unit), len, TruncDiv(len * rotation[1], Unit) >>

\* the index of the "[" that the "]" at index k closes, 0 if there is none
RECURSIVE MatchingOpen(_, _, _)
MatchingOpen(str, k, depth) ==
  IF k = 0 THEN 0
  ELSE IF str[k] = "]" THEN MatchingOpen(str, k - 1, depth + 1)
  ELSE IF str[k] = "[" THEN IF depth = 0 THEN k
                            ELSE MatchingOpen(str, k - 1, depth - 1)
  ELSE MatchingOpen(str, k - 1, depth)

\* the "]" branch restoring everything but the key
RestoreAllButKey(cur, state) ==
  [position |-> state.position, rotation |-> state.rotation,
   thickness |-> state.thickness, len |-> state.len, angle |-> state.angle,
   key |-> cur.key]

\* the "]" branch: the six assignments from the popped state
RestoreState(cur, state) ==
  [position |-> state.position, rotation |-> state.rotation,
   thickness |-> state.thickness, len |-> state.len, angle |-> state.angle,
   key |-> state.key]

TurtleInit ==
  /\ \E n \in 0..LSystemIterations : plantInstructions = evaluateLSystem(system2, n)
  /\ tip = 1
  /\ turtle = [position |-> Zero3, rotation |-> Zero3,
                thickness |-> cylinderThickness, len |-> cylinderLength,
                angle |-> angle, key |-> 0]
  /\ stack = <<>>
  /\ atBracket = [k \in {} |-> turtle]
  /\ lastPop = [at |-> 0, open |-> 0, empty |-> FALSE]

AtChar(chars) == tip <= Len(plantInstructions) /\ plantInstructions[tip] \in chars

\* char === "F": the cylinder is pushed and the turtle moves forward
TurtleForward(r1, r2) ==
  /\ TurtleOnly
  /\ AtChar({"F"})
  /\ LET forward == ForwardOf(turtle.len, turtle.rotation)
     IN turtle' =
          [position |-> VAdd(turtle.position, VMulDiv(forward, 2, 1)),
           rotation |-> [turtle.rotation EXCEPT
                           ![2] = @ + TruncDiv((r1 - Unit \div 2) * 2, 10)],
           thickness |-> TruncDiv(turtle.thickness * 85, 100),
           len |-> TruncDiv(turtle.len * 8, 10),
           angle |-> turtle.angle,
           key |-> turtle.key + Unit + r2]
  /\ tip' = tip + 1
  /\ UNCHANGED <<plantInstructions, stack, atBracket, lastPop>>

\* char === "Z", "z", "X", "x": the turtle turns by currentAngle
TurtleTurn ==
  /\ TurtleOnly
  /\ AtChar({"Z", "z", "X", "x"})
  /\ LET c == plantInstructions[tip]
         axis == IF c \in {"Z", "z"} THEN 3 ELSE 1
         sign == IF c \in {"Z", "X"} THEN 1 ELSE -1
     IN turtle' = [turtle EXCEPT !.rotation[axis] = @ + sign * turtle.angle]
  /\ tip' = tip + 1
  /\ UNCHANGED <<plantInstructions, stack, atBracket, lastPop>>

\* char === "[": the turtle state is cloned onto the stack
TurtlePush ==
  /\ TurtleOnly
  /\ AtChar({"["})
  /\ stack' = Append(stack, [state |-> turtle, open |-> tip])
  /\ atBracket' = [k \in DOMAIN atBracket \cup {tip} |->
                     IF k = tip THEN turtle ELSE atBracket[k]]
  /\ tip' = tip + 1
  /\ UNCHANGED <<plantInstructions, turtle, lastPop>>

\* char === "]": stack.pop(), and the restore if something was popped
TurtlePop ==
  /\ TurtleOnly
  /\ AtChar({"]"})
  /\ IF stack = <<>>
     THEN /\ lastPop' = [at |-> tip, open |-> 0, empty |-> TRUE]
          /\ UNCHANGED <<turtle, stack>>
     ELSE LET top == stack[Len(stack)]
          IN /\ lastPop' = [at |-> tip, open |-> top.open, empty |-> FALSE]
             /\ turtle' = RestoreState(turtle, top.state)
             /\ stack' = SubSeq(stack, 1, Len(stack) - 1)
  /\ tip' = tip + 1
  /\ UNCHANGED <<plantInstructions, atBracket>>

\* char === "m" or "M" (a sphere is pushed), or a character no branch
\* handles ("A", "B"): the turtle is left as it is
TurtleLeaf ==
  /\ TurtleOnly
  /\ AtChar({"m", "M", "A", "B"})
  /\ tip' = tip + 1
  /\ UNCHANGED <<plantInstructions, turtle, stack, atBracket, lastPop>>

PrevIdle ==
  /\ PrevInit
  /\ isDynamic = FALSE

TurtleIdle ==
  /\ TurtleInit
  /\ plantInstructions = system2.axiom

CodecIdle ==
  /\ CodecInit
  /\ codecBytes = <<>>
  /\ codecChunk = chunkSize

StencilIdle == StencilInit

(***************************************************************************)
(* Specifications.                                                         *)
(***************************************************************************)
\* the flock: update() with the loop order of the source
FlockNext ==
  \/ \E ctr \in Centers : LightEntitiesValuesChange(ctr, TRUE)
  \/ \E dt \in DeltaTimes : UpdateBegin(dt, Identity, MaxTicks)
  \/ Phase1Step
  \/ Phase2Step

InitFlock ==
  FlockInit /\ PipeInit /\ StartIdle /\ LutIdle /\ BuildIdle /\ AudioIdle
  /\ FollowIdle /\ GenIdle /\ PrevIdle /\ StencilIdle /\ CodecIdle /\ TurtleIdle

SpecFlock == InitFlock /\ [][FlockNext]_vars

\* update() with phase 1 visiting the agents in any order
PermNext ==
  \/ \E dt \in DeltaTimes, ord \in VisitOrders :
       UpdateBegin(dt, ord, MaxPermTicks)
  \/ Phase1Step
  \/ Phase2Step

SpecPerm == InitFlock /\ [][PermNext]_vars

\* center changes between ticks of one frame length
CenterNext ==
  \/ \E ctr \in Centers, enabled \in BOOLEAN :
       LightEntitiesValuesChange(ctr, enabled)
  \/ UpdateBegin(Unit \div 6, Identity, MaxTicks)
  \/ Phase1Step
  \/ Phase2Step

InitCenter == InitFlock /\ rng = 0

SpecCenter == InitCenter /\ [][CenterNext]_vars

\* ticks of half a second, under which a slow agent comes to rest
RestNext ==
  \/ UpdateBegin(Unit \div 2, Identity, MaxTicks)
  \/ Phase1Step
  \/ Phase2Step

SpecRest == InitFlock /\ [][RestNext]_vars

\* the pass chain under the timeline
PipeNext ==
  \/ \E i \in PassIds, value \in BOOLEAN : PassValuesChange(i, value)
  \/ RenderBegin
  \/ ComposerStep
  \/ RenderEnd

InitPipe ==
  PipeInit /\ FlockIdle /\ StartIdle /\ LutIdle /\ BuildIdle /\ AudioIdle
  /\ FollowIdle /\ GenIdle /\ PrevIdle /\ StencilIdle /\ CodecIdle /\ TurtleIdle

SpecPipe == InitPipe /\ [][PipeNext]_vars

\* start() and the frame loop
Next ==
  \/ SetupScene
  \/ StartResume
  \/ AudioResolve
  \/ AudioReject
  \/ FrameBegin
  \/ AnimateUpdate
  \/ PipelineRender
  \/ FrameEnd
  \/ TimerTick

Init ==
  StartInit /\ FlockIdle /\ PipeInit /\ LutIdle /\ BuildIdle /\ AudioIdle
  /\ FollowIdle /\ GenIdle /\ PrevIdle /\ StencilIdle /\ CodecIdle /\ TurtleIdle

Spec == Init /\ [][Next]_vars

\* the browser keeps calling the animation loop and animate() runs to its end
SpecLive ==
  Spec /\ WF_vars(FrameBegin) /\ WF_vars(AnimateUpdate)
       /\ WF_vars(PipelineRender) /\ WF_vars(FrameEnd)

\* the LUT cache
LutNext ==
  \/ \E usable \in BOOLEAN, gThrows \in BOOLEAN, sThrows \in BOOLEAN,
        pixels \in PixelReadbacks :
       GenerateBrdfLUT(usable, gThrows, sThrows, pixels)
  \/ \E key \in Keys, item \in CacheEntries : StorageChange(key, item)

InitLut ==
  LutInit /\ FlockIdle /\ PipeInit /\ StartIdle /\ BuildIdle /\ AudioIdle
  /\ FollowIdle /\ GenIdle /\ PrevIdle /\ StencilIdle /\ CodecIdle /\ TurtleIdle

SpecLut == InitLut /\ [][LutNext]_vars

\* the instanced builder
BuildNext ==
  \/ BuildInstanced
  \/ BuildInstancedLights
  \/ UpdatePublish(MaxPublishTicks)
  \/ \E os \in ObjLists : BuildAgain(os)

InitBuild ==
  BuildInit /\ FlockIdle /\ PipeInit /\ StartIdle /\ LutIdle /\ AudioIdle
  /\ FollowIdle /\ GenIdle /\ PrevIdle /\ StencilIdle /\ CodecIdle /\ TurtleIdle

SpecBuild == InitBuild /\ [][BuildNext]_vars

\* the audio manager and the material reading it
AudioNext ==
  \/ AttachBegin
  \/ \E id \in 1..MaxAudioCalls : AttachResolve(id)
  \/ \E id \in 1..MaxAudioCalls : AttachReject(id)
  \/ AudioDispose
  \/ AudioPlay
  \/ AudioPause
  \/ AudioToggle
  \/ \E spectrum \in Spectra : SolidstateBeforeRender(spectrum)

InitAudio ==
  AudioInit /\ FlockIdle /\ PipeInit /\ StartIdle /\ LutIdle /\ BuildIdle
  /\ FollowIdle /\ GenIdle /\ PrevIdle /\ StencilIdle /\ CodecIdle /\ TurtleIdle

SpecAudio == InitAudio /\ [][AudioNext]_vars

\* timeline changes of "Camera Follow" interleaved with frames
FollowNext ==
  \/ \E en \in BOOLEAN, v \in FollowValues, off \in Offsets, sm \in Smoothings :
       CameraFollowValuesChange(en, v, off, sm)
  \/ CameraFollowUpdate(MaxFollowFrames)

InitFollow ==
  FollowInit /\ FlockIdle /\ PipeInit /\ StartIdle /\ LutIdle /\ BuildIdle
  /\ AudioIdle /\ GenIdle /\ PrevIdle /\ StencilIdle /\ CodecIdle /\ TurtleIdle

SpecFollow == InitFollow /\ [][FollowNext]_vars

\* follow switched on and off between the frames, over whole indices
SnapNext ==
  \/ \E en \in BOOLEAN, v \in {0, (count - 1) * Unit}, off \in Offsets,
        sm \in Smoothings :
       CameraFollowValuesChange(en, v, off, sm)
  \/ CameraFollowUpdate(MaxSnapFrames)

SpecSnap == InitFollow /\ [][SnapNext]_vars

\* grid.generate over every scene
GenNext ==
  \/ CreateLightEntities
  \/ CreateLSystemPlant(LSystemIterations)
  \/ InstanceScene

InitGen ==
  GenInit /\ FlockIdle /\ PipeInit /\ StartIdle /\ LutIdle /\ BuildIdle
  /\ AudioIdle /\ FollowIdle /\ PrevIdle /\ StencilIdle /\ CodecIdle /\ TurtleIdle

SpecGen == InitGen /\ [][GenNext]_vars

\* one object configured, moved and drawn over the frames
PrevNext ==
  \/ ConfigurePrevious
  \/ \E v \in MatrixValues : ObjectMoves(v)
  \/ DrawObject(MaxDrawn)

InitPrev ==
  PrevInit /\ FlockIdle /\ PipeInit /\ StartIdle /\ LutIdle /\ BuildIdle
  /\ AudioIdle /\ FollowIdle /\ GenIdle /\ StencilIdle /\ CodecIdle /\ TurtleIdle

SpecPrev == InitPrev /\ [][PrevNext]_vars

\* the G-buffer, light and IBL passes of the frames, fragment by fragment
StencilNext ==
  \/ \E mat \in GBufferMaterials, p \in Pixels, depthPasses \in BOOLEAN :
       GBufferFragment(mat, p, depthPasses)
  \/ LightPassDraw
  \/ \E p \in Pixels : IblFragment(p)
  \/ FrameClear

InitStencil ==
  StencilInit /\ FlockIdle /\ PipeInit /\ StartIdle /\ LutIdle /\ BuildIdle
  /\ AudioIdle /\ FollowIdle /\ GenIdle /\ PrevIdle /\ CodecIdle /\ TurtleIdle

SpecStencil == InitStencil /\ [][StencilNext]_vars

\* the interpreter loop, character by character
TurtleNext ==
  \/ \E r1 \in RandomValues, r2 \in RandomValues : TurtleForward(r1, r2)
  \/ TurtleTurn
  \/ TurtlePush
  \/ TurtlePop
  \/ TurtleLeaf

InitTurtle ==
  TurtleInit /\ FlockIdle /\ PipeInit /\ StartIdle /\ LutIdle /\ BuildIdle
  /\ AudioIdle /\ FollowIdle /\ GenIdle /\ PrevIdle /\ StencilIdle
  /\ CodecIdle

SpecTurtle == InitTurtle /\ [][TurtleNext]_vars

\* the codec on arbitrary arrays, and generateBrdfLUT calls on an origin
\* whose store nothing else writes
CodecNext ==
  \/ EncodeBytes
  \/ DecodeText
  \/ \E usable \in BOOLEAN, sThrows \in BOOLEAN, pixels \in PixelReadbacks :
       GenerateBrdfLUT(usable, FALSE, sThrows, pixels)

InitCodec ==
  CodecInit /\ FlockIdle /\ PipeInit /\ StartIdle /\ LutIdle /\ BuildIdle
  /\ AudioIdle /\ FollowIdle /\ GenIdle /\ PrevIdle /\ StencilIdle /\ TurtleIdle

SpecCodec == InitCodec /\ [][CodecNext]_vars

(***************************************************************************)
(* Properties.                                                             *)
(***************************************************************************)
\* C1: in the initial state and after every update(deltaTime), every agent's
\* velocity has magnitude at most MAX_SPEED.
SpeedBound ==
  fpc = "idle" =>
    \A i \in Boids : LenSq(velocity[i]) <= MAX_SPEED * MAX_SPEED

\* a tick has ended in which the clamp acted on some agent
SpeedBoundWitness == fpc = "idle" /\ ticks > 0 /\ clamped

Phase1Done == fpc = "phase2" /\ fk = 1

\* C2 (as amended): when phase 1 has ended, whatever the order in which it
\* visited the agents, every agent's acceleration is its steering computed
\* from the positions and velocities of the start of the tick, plus a jitter
\* made of the three draws that fall to its place in the visiting order.
SteeringOrderIndependent ==
  Phase1Done =>
    \A i \in Boids :
      accelerations[i] =
        Acceleration(pre.pos, pre.vel, center, i,
                     StreamAt(rng0, VisitPos(order, i)))

\* phase 1 has ended after visiting in another order than 0..N-1, with some
\* agent inside another's separation radius
SteeringOrderWitness ==
  Phase1Done /\ order # Identity /\ \E i \in Boids : Separated(pre.pos, i) # {}

\* C2 (as claimed): when phase 1 has ended, every agent's acceleration, jitter
\* included, is the one the order 0..N-1 gives it.
AccelerationOrderIndependent ==
  Phase1Done =>
    \A i \in Boids :
      accelerations[i] =
        Acceleration(pre.pos, pre.vel, center, i, StreamAt(rng0, i))

\* C3: when pipeline.render() starts, exactly one gameState.update() has run
\* since the previous frame ended and the buffers hold the latest tick; and
\* no gameState.update() runs between the start of pipeline.render() and the
\* start of the next frame.
OneTickPerFrame ==
  /\ apc = "render" => updatesInFrame = 1 /\ renderedTick = simTicks
  /\ ticksSinceRender = 0

\* the pass before position i that executed last in this frame, or 0
PrevRan(i) ==
  IF \E j \in ran : j < i
  THEN CHOOSE j \in ran : j < i /\ \A k \in ran : k < i => k <= j
  ELSE 0

ToneMappingIsTerminal ==
  pidx = FrameDone =>
    /\ Len(Passes) \in ran
    /\ Passes[Len(Passes)] = "ToneMappingPass"
    /\ targetOf[Len(Passes)] = "screen"
    /\ \A i \in ran : targetOf[i] = "screen" => i = Len(Passes)

\* C6: a generateBrdfLUT call never raises, returns the cached texture only
\* when the entry decodes to exactly size * size * 4 bytes, and recomputes
\* in every other case.
LutLookupNeverErrors ==
  lutResult.kind # "none" =>
    /\ lutResult.kind # "raised"
    /\ LET entry == storeBefore[BRDF_LUT_CACHE_KEY]
           valid == /\ storageUsable
                    /\ entry.present
                    /\ Atob(entry.chars).ok
                    /\ Len(Atob(entry.chars).bytes) = LutBytes
       IN IF valid
          THEN lutResult = [kind |-> "cached", bytes |-> Atob(entry.chars).bytes]
          ELSE lutResult.kind = "computed"

\* C7 (as amended): when generateBrdfLUT has recomputed the LUT and returned,
\* then, if localStorage is usable and setItem did not throw, the store holds
\* under "brdfLUT_v1_512" the base64 encoding of the size * size * 4 pixels
\* just read, which the next lookup decodes to those pixels, and every other
\* key is as before; otherwise the store is as it was before the call.
RecomputeWritesCacheWhenWritable ==
  lutResult.kind = "computed" =>
    IF storageUsable /\ ~setThrows
    THEN /\ Len(gpuPixels) = LutBytes
         /\ store[BRDF_LUT_CACHE_KEY] = Item(Btoa(gpuPixels))
         /\ loadBrdfLUTFromCache(TRUE, FALSE, store) =
              [kind |-> "texture", bytes |-> gpuPixels]
         /\ \A k \in Keys \ {BRDF_LUT_CACHE_KEY} : store[k] = storeBefore[k]
    ELSE store = storeBefore

\* a recomputation has replaced a corrupt entry
RecomputeWitness ==
  /\ lutResult.kind = "computed"
  /\ storageUsable /\ ~setThrows
  /\ storeBefore[BRDF_LUT_CACHE_KEY].present
  /\ store[BRDF_LUT_CACHE_KEY] # storeBefore[BRDF_LUT_CACHE_KEY]

\* C7 (as claimed): when generateBrdfLUT has recomputed the LUT and returned,
\* the store holds under "brdfLUT_v1_512" the base64 encoding of the pixels
\* just read and every other key is as before.
RecomputeAlwaysWritesCache ==
  lutResult.kind = "computed" =>
    /\ store[BRDF_LUT_CACHE_KEY] = Item(Btoa(gpuPixels))
    /\ \A k \in Keys \ {BRDF_LUT_CACHE_KEY} : store[k] = storeBefore[k]

\* whether instance i carries a well-shaped value for the attribute desc
WellShaped(value, desc) ==
  value.kind = "number" \/ (value.kind = "vector" /\ value.size = desc.size)

MisShaped(os) ==
  {<<i, d>> \in (DOMAIN os) \X (DOMAIN AttributeDescs) :
     ~WellShaped(os[i][AttributeDescs[d].name], AttributeDescs[d])}

\* C8: a buildInstanced call on a list with a mis-shaped attribute value
\* throws an error that names an object and an attribute carrying such a
\* value; it does not return a mesh.
BuilderFailsFast ==
  (bpc # "ready" /\ MisShaped(objs) # {}) =>
    /\ bpc = "threw"
    /\ \E m \in MisShaped(objs) :
         /\ buildError.object = m[1]
         /\ buildError.attribute = AttributeDescs[m[2]].name

\* C9: if some mesh of the scene has a material that is neither a
\* MeshPhysicalMaterial nor a ShaderMaterial, start() rejects with an error
\* naming the type of the first such mesh, and the animation loop is never
\* installed, no timer is installed and no frame is rendered.
UnsupportedMaterialHaltsStartup ==
  (spc # "start" /\ \E k \in DOMAIN sceneMaterials :
       sceneMaterials[k] \notin {"MeshPhysicalMaterial", "ShaderMaterial"}) =>
    /\ spc = "rejected"
    /\ \E k \in DOMAIN sceneMaterials :
         /\ startError = [message |-> "Unsupported material type",
                           type |-> sceneMaterials[k]]
         /\ sceneMaterials[k] \notin {"MeshPhysicalMaterial", "ShaderMaterial"}
         /\ configured = k - 1
    /\ ~loopInstalled
    /\ ~timerInstalled
    /\ audio = "unstarted"
    /\ frames = 0
    /\ apc = "idle"

\* start() has rejected at the second mesh, the first one configured
UnsupportedMaterialWitness ==
  /\ spc = "rejected"
  /\ configured = 1
  /\ startError = [message |-> "Unsupported material type",
                    type |-> "MeshBasicMaterial"]

\* C10: once start() has created the audio promise, the animation loop is
\* installed, start() has returned without an error whether the promise is
\* pending, resolved or rejected, a rejection has been logged, and every
\* frame begun is rendered up to the bound, the promise pending or settled.
AudioNeverBlocksRendering ==
  /\ [](audio # "unstarted" =>
          /\ loopInstalled
          /\ spc = "returned"
          /\ startError = NoStartError
          /\ (audio = "rejected" => audioLogged))
  /\ (audio # "unstarted") ~> (frames = MaxFrames)

\* the audio promise has rejected and every frame has been rendered
AudioRejectedWitness ==
  /\ audio = "rejected"
  /\ audioLogged
  /\ frames = MaxFrames
  /\ renderedTick > 0

\* C11 (as amended): whenever onBeforeRender runs with no track attached,
\* getEnergy() returns 0 and the loudness uniform is set to 0 * 10 - 10 = -10,
\* the least value it takes; with a track it lies between -10 and 0.
LoudnessFloorWithoutAudio ==
  lastOp = "render" =>
    /\ -10 * Unit <= loudness /\ loudness <= 0
    /\ ~trackAtRender => energy = 0 /\ loudness = -10 * Unit

\* a frame has been rendered after an attach failed, no track attached
LoudnessFloorWitness ==
  lastOp = "render" /\ ~trackAtRender /\ amFailed # {} /\ awaiting = {}

\* C11 (as claimed): whenever onBeforeRender runs with no track attached,
\* getEnergy() returns 0 and the loudness uniform is set to 0.
LoudnessZeroWithoutAudio ==
  (lastOp = "render" /\ ~trackAtRender) => energy = 0 /\ loudness = 0

\* C18: when no attachToSequence / load call is suspended, at most one
\* analyser is connected to the destination and it is the one the fields
\* refer to.
OneGraphConnected ==
  awaiting = {} => Cardinality(connected) <= 1 /\ connected \subseteq {amAnalyser}

\* C19: after toggle() with a track attached, playback is paused if it was
\* playing and playing if it was paused.
ToggleToggles ==
  lastOp = "toggle" => playing = ~playingBefore

\* C12: when phase 1 has ended, the separation term in every agent's
\* acceleration has magnitude at most MAX_FORCE * SEPARATION_WEIGHT, and for
\* an agent with exactly one other agent closer than SEPARATION_RADIUS (and
\* farther than 0.001) its component along the direction from that agent
\* towards itself is not negative.
SeparationDominance ==
  Phase1Done =>
    \A i \in Boids :
      LET sep == SeparationForce(pre.pos, pre.vel, i)
      IN /\ 4 * LenSq(sep) <= 25 * MAX_FORCE * MAX_FORCE
         /\ \A j \in Boids :
              Separated(pre.pos, i) = {j} =>
                LET away == VSub(pre.pos[i], pre.pos[j])
                IN sep[1] * away[1] + sep[2] * away[2] + sep[3] * away[3] >= 0

\* phase 1 has ended in a later tick with two moving agents inside each
\* other's separation radius and a separation term that is not zero
SeparationWitness ==
  /\ Phase1Done
  /\ ticks > 0
  /\ \E i \in Boids, j \in Boids :
       /\ Separated(pre.pos, i) = {j}
       /\ pre.vel[i] # Zero3
       /\ SeparationForce(pre.pos, pre.vel, i) # Zero3

\* C14: every index the camera-follow controller has passed to
\* getInstancePosition / getInstanceQuaternion is a whole number i with
\* 0 <= i < count and no accessor call has thrown, whatever followIndex
\* values the timeline delivered; and each accessor returns an agent's state
\* exactly for such an index and throws for every other one.
FollowerIndicesValid ==
  /\ camCalled =>
       /\ camArg % Unit = 0
       /\ camArg \div Unit \in 0..(count - 1)
       /\ ~camRaised
  /\ \A x \in FollowValues \cup {camFollowIndex} :
       LET valid == x % Unit = 0 /\ x \div Unit \in 0..(count - 1)
       IN /\ getInstancePosition(x).raised = ~valid
          /\ getInstanceQuaternion(x).raised = ~valid
          /\ valid => getInstancePosition(x).value = position[(x \div Unit) + 1]

\* the controller has followed an agent after the timeline delivered a
\* fractional followIndex, and after it delivered one above the range
FollowerWitness ==
  /\ camCalled
  /\ camInitialized
  /\ \/ camValue = (3 * Unit) \div 2 /\ camArg = Unit
     \/ camValue = 1000 * Unit /\ camArg = (count - 1) * Unit

\* C17: every buildInstanced call grid.generate and its generators have made
\* (light entities, L-system cylinders and spheres, scene boxes, spheres and
\* cylinders) was handed a list with at least one element.
BuilderNeverGetsEmptyList ==
  \A c \in DOMAIN builderCalls : builderCalls[c].n >= 1

\* grid.generate has finished on a scene with boxes of two shaders and no
\* sphere, after building the light entities and the plant
BuilderCallsWitness ==
  /\ gpc = "done"
  /\ Flagged(sceneObjs, "sphere") = 0
  /\ Cardinality({c \in DOMAIN builderCalls : builderCalls[c].site = "boxes"}) = 2
  /\ \E c \in DOMAIN builderCalls : builderCalls[c].site = "lSystemCylinders"
  /\ \E c \in DOMAIN builderCalls : builderCalls[c].site = "lightEntities"

\* C15: a timeline change of the center between ticks changes only
\* entity.center and the two meshes' visibility: every agent's position,
\* velocity and acceleration and both instance buffers stay as they were;
\* and when phase 1 of a tick has ended, the center-pull in every agent's
\* acceleration is CENTER_WEIGHT times the offset from the agent to the
\* center as last set.
CenterMutableWithoutReinit ==
  [][ /\ (center' # center \/ lightsVisible' # lightsVisible) =>
           UNCHANGED <<position, velocity, accelerations, objectsBuffer,
                       lightsBuffer, rng, ticks, fpc>>
      /\ (fpc' = "phase2" /\ fk' = 1) =>
           \A i \in Boids :
             accelerations'[i] =
               VAdd(VAdd(VAdd(VAdd(AlignmentForce(pre'.pos, pre'.vel, i),
                                   CohesionForce(pre'.pos, pre'.vel, i)),
                              SeparationForce(pre'.pos, pre'.vel, i)),
                         VAdd(VMulDiv(VSub(center', pre'.pos[i]), 5, 10000),
                              HeightForce(pre'.pos, pre'.vel, i))),
                    Jitter3(StreamAt(rng0', VisitPos(order', i))))
    ]_vars

\* phase 1 of a later tick has ended after the center was moved away from
\* where it was in the first tick, and some agent has moved in between
CenterMovedWitness ==
  /\ Phase1Done
  /\ ticks > 0
  /\ center # <<200 * Unit, 5 * Unit, 200 * Unit>>
  /\ \E i \in Boids :
       /\ position[i] \notin InitPositions
       /\ objectsBuffer[i] = position[i]
       /\ VMulDiv(VSub(center, position[i]), 5, 10000)
            # VMulDiv(VSub(<<200 * Unit, 5 * Unit, 200 * Unit>>, position[i]),
                      5, 10000)

\* C20: within one update() call, while phase 1 runs no agent's position,
\* velocity or published transform differs from what it was when the call
\* began, and a phase 1 step changes nothing but the accelerations (and the
\* random stream); while phase 2 runs every acceleration is the one phase 1
\* computed from the values at the beginning of the call, the agents not yet
\* integrated are as they were at the beginning, and a phase 2 step gives its
\* agent the velocity and position obtained from its values at the beginning
\* of the call and that acceleration.
TwoPhaseUpdate ==
  [][ LET acc(i) == Acceleration(pre.pos, pre.vel, center, i,
                                 StreamAt(rng0, VisitPos(order, i)))
          vel(i) == IntegrateVelocity(pre.vel[i], acc(i), deltaTime)
      IN /\ fpc = "phase1" =>
              /\ position = pre.pos
              /\ velocity = pre.vel
              /\ objectsBuffer = pre.pos
              /\ UNCHANGED <<position, velocity, objectsBuffer, lightsBuffer,
                             center, pre>>
         /\ fpc = "phase2" =>
              /\ \A i \in Boids :
                   /\ accelerations[i] = acc(i)
                   /\ i >= fk => /\ velocity[i] = pre.vel[i]
                                 /\ position[i] = pre.pos[i]
              /\ accelerations' = accelerations
              /\ velocity' = [velocity EXCEPT ![fk] = vel(fk)]
              /\ position' =
                   [position EXCEPT
                      ![fk] = IntegratePosition(pre.pos[fk], vel(fk), deltaTime)]
    ]_vars

\* in a later tick, phase 2 has moved the first agent and not yet the last,
\* which is within the first one's perception radius
TwoPhaseWitness ==
  /\ fpc = "phase2"
  /\ fk = NumBoids
  /\ ticks > 0
  /\ position[1] # pre.pos[1]
  /\ 1 \in Perceived(pre.pos, NumBoids)

\* the instance that owns cell k of an array with `size` floats per instance
SlotOwner(k, size) == ((k - 1) \div size) + 1

\* C16: once buildInstanced has returned for N instances, the instanceMatrix
\* array holds N * 16 floats and the array of every schema attribute holds
\* N * size floats, N * (16 + sum of sizes) in all; every float of the
\* instanceMatrix array was written by the instance whose 16-float range it
\* lies in, and, when every instance carries values of the schema's sizes,
\* the same holds for every attribute array; the arrays of
\* buildInstancedLights have N * 16, N * 3, N and N floats; and all this
\* stays so after any number of update() calls.
InstanceBufferLayout ==
  bpc = "returned" =>
    LET N == Len(objs)
        sizeOf == [a \in AttributeNames |->
                     (CHOOSE d \in {AttributeDescs[x] : x \in DOMAIN AttributeDescs} :
                        d.name = a).size]
        conforming == \A i \in DOMAIN objs, a \in AttributeNames :
                        objs[i][a].size = sizeOf[a]
    IN /\ Len(matrixArray) = N * 16
       /\ \A a \in AttributeNames : Len(attributeArrays[a]) = N * sizeOf[a]
       /\ Len(matrixArray) + Len(attributeArrays.color)
            + Len(attributeArrays.emissiveIntensity) + Len(attributeArrays.keyData)
          = N * (16 + sizeOf.color + sizeOf.emissiveIntensity + sizeOf.keyData)
       /\ \A k \in DOMAIN matrixArray : matrixArray[k].obj = SlotOwner(k, 16)
       /\ conforming =>
            \A a \in AttributeNames : \A k \in DOMAIN attributeArrays[a] :
              attributeArrays[a][k].obj = SlotOwner(k, sizeOf[a])
       /\ lightArrays # NoLightArrays =>
            \A a \in DOMAIN LightSizes :
              /\ Len(lightArrays[a]) = N * LightSizes[a]
              /\ \A k \in DOMAIN lightArrays[a] :
                   lightArrays[a][k].obj = SlotOwner(k, LightSizes[a])

\* update() has published twice into the arrays built for two instances
\* that carry values of the schema's sizes
InstanceBufferWitness ==
  /\ bpc = "returned"
  /\ published >= 2
  /\ Len(objs) >= 2
  /\ \A i \in DOMAIN objs :
       /\ objs[i].color = Vector(3)
       /\ objs[i].emissiveIntensity = Number
       /\ objs[i].keyData = Vector(4)

\* C21: when phase 1 has ended, a steering force whose direction vector had
\* zero length at the start of the tick (the neighbours' average velocity,
\* the offset to their average position, the average repulsion, or the
\* height error) has contributed nothing to the agent's acceleration.
ZeroDirectionContributesNothing ==
  Phase1Done =>
    \A i \in Boids :
      LET S == Perceived(pre.pos, i)
          n == Cardinality(S)
          C == Separated(pre.pos, i)
          rep == [j \in Boids |->
                    IF j \in C THEN Repulsion(pre.pos, i, j) ELSE Zero3]
      IN /\ (n > 0 /\ VMulDiv(VSum(S, pre.vel), 1, n) = Zero3) =>
              AlignmentForce(pre.pos, pre.vel, i) = Zero3
         /\ (n > 0 /\ VMulDiv(VSum(S, pre.pos), 1, n) = pre.pos[i]) =>
              CohesionForce(pre.pos, pre.vel, i) = Zero3
         /\ (C # {} /\ VMulDiv(VSum(C, rep), 1, Cardinality(C)) = Zero3) =>
              SeparationForce(pre.pos, pre.vel, i) = Zero3
         /\ pre.pos[i][2] = TARGET_HEIGHT =>
              HeightForce(pre.pos, pre.vel, i) = Zero3

\* C22: after any tick that leaves an agent with a speed of at most 0.01,
\* the rotation of that agent's object, which is composed into its instance
\* transform and returned by getInstanceQuaternion, is the identity (FORWARD
\* is turned to FORWARD).
OrientationAtRestIsIdentity ==
  (fpc = "idle" /\ ticks > 0) =>
    \A i \in Boids :
      LenSq(velocity[i]) <= (Unit * Unit) \div 10000 =>
        /\ heading[i] = FORWARD
        /\ getInstanceQuaternion((i - 1) * Unit).value = FORWARD

\* C23: at every moment, each light's 16 floats in the point-light instance
\* buffer are the matrix built at construction (scale 4 * intensity, no
\* rotation, bottom row 0 0 0 1) in all but the three translation entries,
\* and the translation entries are the agent's current position.
LightsOnlyTranslate ==
  \A i \in Boids :
    /\ lightsBuffer[i].basis =
         <<<<80 * Unit, 0, 0>>, <<0, 80 * Unit, 0>>, <<0, 0, 80 * Unit>>>>
    /\ lightsBuffer[i].bottom = <<0, 0, 0, Unit>>
    /\ lightsBuffer[i].pos = position[i]

\* two ticks have moved an agent and turned its object away from FORWARD
LightsMovedWitness ==
  /\ fpc = "idle"
  /\ ticks >= 2
  /\ \E i \in Boids :
       /\ position[i] \notin InitPositions
       /\ heading[i] # FORWARD
       /\ lightsBuffer[i].pos = position[i]

\* C24: in every frame after the first in which the object is drawn, the
\* previousWorldMatrix uniform handed to its material is the object's world
\* matrix as it was when the object was drawn in the frame before.
PreviousWorldMatrixRetained ==
  \A k \in DOMAIN uniformAtDraw :
    k >= 2 => uniformAtDraw[k] = worldAtDraw[k - 1]

\* C25: with every pass of the chain enabled, each buffer of the frame (G-buffer,
\* SSAO buffer, light buffer, UI text buffer) that an executed pass reads has
\* been rendered to earlier in the same frame by a pass that precedes it in
\* the order of the chain, which is fixed at construction.
ReadAfterWrite ==
  (\A j \in PassIds : passEnabled[j]) =>
    \A i \in ran :
      \A b \in PassReads(Passes[i]) \cap FrameBuffers :
        \E j \in ran : j < i /\ targetOf[j] = b

ReadAfterWriteWitness ==
  /\ pidx = FrameDone
  /\ ran = PassIds
  /\ \A i \in PassIds : PassReads(Passes[i]) \cap FrameBuffers # {} => i \in ran

\* C26: in every frame from the second on, the saved-colour buffer SSRPass
\* samples holds what SavePass stored during the frame before, and SSRPass
\* never finds the colour of its own frame in it.  As stated, for every frame.
SsrSamplesPreviousFrame ==
  (frameNo >= 2 /\ ssrSampled # "notRun") =>
    ssrSampled = "previousFrame"

\* C26, for the frames that follow a frame in which SavePass executed
SsrSamplesPreviousFrameIfSaved ==
  /\ ssrSampled # "thisFrame"
  /\ (frameNo >= 2 /\ ssrSampled # "notRun" /\ saveRanPrev) =>
       ssrSampled = "previousFrame"

SsrSampledWitness ==
  /\ frameNo >= 2
  /\ saveRanPrev
  /\ ssrSampled = "previousFrame"

OnTarget ==
  /\ camPosition' = VAdd(camOffset, getInstancePosition(camFollowIndex).value)
  /\ camLookAt' = getInstancePosition(camFollowIndex).value

\* C28: the first update() after follow became enabled (initially or again)
\* puts the camera exactly on the target and the look-at point exactly on the
\* agent; update() while follow is disabled leaves the camera as it was.
\* As stated: for every enable since the last update().
FollowSnapsOnEnable ==
  [][ camFrames' # camFrames =>
        /\ (camEnabled /\ camWasDisabled) => OnTarget
        /\ ~camEnabled => UNCHANGED <<camPosition, camLookAt>> ]_vars

\* C28, for an enable that an update() call found disabled before (or that
\* no update() call preceded)
FollowSnapsAfterDisabledUpdate ==
  [][ camFrames' # camFrames =>
        /\ (camEnabled /\ ~camSeenEnabled) => OnTarget
        /\ ~camEnabled => UNCHANGED <<camPosition, camLookAt>> ]_vars

\* follow was enabled, disabled over an update() and enabled again, and the
\* camera has just been placed the second time
FollowSnapWitness ==
  /\ camSnaps = 2
  /\ camFrames = 3
  /\ camSeenEnabled
  /\ camPosition = VAdd(camOffset, getInstancePosition(camFollowIndex).value)
  /\ camPosition # Zero3

\* a generateBrdfLUT call that follows one which computed the LUT and stored
\* it, with storage usable and readable: no rendering, the cached texture
NextCallCached ==
  (/\ lutCalls' = lutCalls + 1
   /\ lutResult.kind = "computed"
   /\ storageUsable /\ ~setThrows
   /\ storageUsable' /\ ~getThrows') =>
    /\ store[BRDF_LUT_CACHE_KEY] = Item(encodeBytesToBase64(lutResult.bytes))
    /\ lutRenders' = lutRenders
    /\ lutResult' = [kind |-> "cached", bytes |-> lutResult.bytes]
    /\ store' = store

\* C29: after a generateBrdfLUT call that computed the LUT with storage
\* available and the write succeeding, the next call renders nothing and
\* returns the cached texture, whose bytes are the bytes that were stored;
\* decodeBase64ToBytes(encodeBytesToBase64(b)) = b for every byte array b,
\* whether or not its length is a multiple of the chunk size.
CacheRoundTrip ==
  /\ [](codecStep = "decoded" => codecOut = [ok |-> TRUE, bytes |-> codecBytes])
  /\ [][NextCallCached]_vars

CacheRoundTripWitness ==
  /\ codecStep = "decoded"
  /\ Len(codecBytes) > codecChunk
  /\ Len(codecBytes) % codecChunk # 0
  /\ codecOut.bytes = codecBytes
  /\ lutCalls = 2
  /\ lutRenders = 1
  /\ lutResult.kind = "cached"
  /\ lutResult.bytes = gpuPixels

\* C30: for system2 and every iteration count, every "]" the interpreter
\* reaches pops a state (the stack is not empty), the state popped is the one
\* pushed at the matching "[", position, rotation, thickness, length, angle
\* and key are what they were at that "[", and the stack is empty when the
\* string has been interpreted.
TurtleStackBalanced ==
  /\ ~lastPop.empty
  /\ lastPop.at # 0 =>
       /\ lastPop.open # 0
       /\ lastPop.open = MatchingOpen(plantInstructions, lastPop.at - 1, 0)
       /\ (tip = lastPop.at + 1 => turtle = atBracket[lastPop.open])
  /\ tip > Len(plantInstructions) => stack = <<>>
  /\ \A i \in DOMAIN stack : plantInstructions[stack[i].open] = "["

\* a "]" of a nested branch has just restored a state that differed from the
\* turtle one in position, rotation, thickness, length and key
TurtleWitness ==
  /\ lastPop.at # 0
  /\ tip = lastPop.at + 1
  /\ Len(stack) >= 1
  /\ turtle = atBracket[lastPop.open]
  /\ turtle.key > 0
  /\ turtle.thickness < cylinderThickness

====
